---- MODULE Spec2Model ----
(***************************************************************************)
(* Model of the Jarvis voice pipeline of src/jarvis_assistant_fixed.py:    *)
(* the audio callback that spawns one wake handler thread per detection,   *)
(* the wake handlers (on_wake_word_detected, speak_immediately, listen,    *)
(* process_command), the generation threads (generate_buffered_response,   *)
(* speak_sentence) and the speech worker (speech_handler,                  *)
(* speak_interruptible), sharing interrupt_flag, currently_speaking,       *)
(* processing_response, response_lock, speech_queue, stop_event, memory    *)
(* and the speech engine.                                                  *)
(*                                                                         *)
(* Threads interleave at every access to shared state.  time.sleep orders  *)
(* nothing between threads: a sleeping thread simply takes its next step   *)
(* later, so a sleep is folded into the step before it.  Text is a         *)
(* sequence of one-character strings.                                      *)
(***************************************************************************)
EXTENDS Integers, Sequences, FiniteSets, TLC

\* ------------------------------------------------------------------ bounds

\* Wake detections the audio callback reports in one run.
MaxWakes == 2
\* Generation sessions started in one run.
MaxSessions == 2
\* Chunks the model stream yields in one session, at most.
MaxChunks == 2
\* Calls of SentenceDetector.add_chunk on one detector.
MaxFeeds == 3

\* ------------------------------------------------------------------- text

Whitespace == {" ", "\n", "\t"}

RECURSIVE LStrip(_)
LStrip(s) == IF s = <<>> THEN s
             ELSE IF Head(s) \in Whitespace THEN LStrip(Tail(s)) ELSE s

RECURSIVE RStrip(_)
RStrip(s) == IF s = <<>> THEN s
             ELSE IF s[Len(s)] \in Whitespace THEN RStrip(SubSeq(s, 1, Len(s) - 1))
             ELSE s

\* str.strip()
Strip(s) == RStrip(LStrip(s))

\* Index of the first occurrence of character c in s at or after i; 0 if none.
RECURSIVE FindChar(_, _, _)
FindChar(s, c, i) == IF i > Len(s) THEN 0
                     ELSE IF s[i] = c THEN i ELSE FindChar(s, c, i + 1)

\* re.sub(r'\*\*([^*]+)\*\*', r'\1', s), scanning from index i.
RECURSIVE SubBold(_, _)
SubBold(s, i) ==
  IF i > Len(s) THEN <<>>
  ELSE LET j == IF i + 2 <= Len(s) THEN FindChar(s, "*", i + 2) ELSE 0
       IN  IF /\ i + 1 <= Len(s) /\ s[i] = "*" /\ s[i + 1] = "*"
              /\ j >= i + 3 /\ j + 1 <= Len(s) /\ s[j + 1] = "*"
           THEN SubSeq(s, i + 2, j - 1) \o SubBold(s, j + 2)
           ELSE <<s[i]>> \o SubBold(s, i + 1)

\* re.sub(d + r'([^d]+)' + d, r'\1', s) for a one-character delimiter d.
RECURSIVE SubDelim(_, _, _)
SubDelim(s, d, i) ==
  IF i > Len(s) THEN <<>>
  ELSE LET j == IF i + 1 <= Len(s) THEN FindChar(s, d, i + 1) ELSE 0
       IN  IF s[i] = d /\ j >= i + 2
           THEN SubSeq(s, i + 1, j - 1) \o SubDelim(s, d, j + 1)
           ELSE <<s[i]>> \o SubDelim(s, d, i + 1)

\* Length of the run of characters of set cs that starts at index i.
RECURSIVE RunLen(_, _, _)
RunLen(s, cs, i) == IF i > Len(s) \/ s[i] \notin cs THEN 0
                    ELSE 1 + RunLen(s, cs, i + 1)

\* re.sub(r'#{1,6}\s+', '', s), scanning from index i.
RECURSIVE SubHeader(_, _)
SubHeader(s, i) ==
  IF i > Len(s) THEN <<>>
  ELSE LET h == RunLen(s, {"#"}, i)
           w == RunLen(s, Whitespace, i + h)
       IN  IF h >= 1 /\ h <= 6 /\ w >= 1
           THEN SubHeader(s, i + h + w)
           ELSE <<s[i]>> \o SubHeader(s, i + 1)

\* ' '.join(s.split()): runs of whitespace become one space, the ends trimmed.
RECURSIVE JoinSplit(_)
JoinSplit(s) ==
  LET t == LStrip(s)
  IN  IF t = <<>> THEN <<>>
      ELSE LET k    == CHOOSE m \in 1..Len(t) :
                         /\ \A x \in 1..m : t[x] \notin Whitespace
                         /\ (m = Len(t) \/ t[m + 1] \in Whitespace)
               rest == JoinSplit(SubSeq(t, k + 1, Len(t)))
           IN  IF rest = <<>> THEN SubSeq(t, 1, k)
               ELSE SubSeq(t, 1, k) \o <<" ">> \o rest

\* The backquote character, which a TLA+ string cannot hold.
Backquote == "backquote"

\* Jarvis.clean_sentence
clean_sentence(sentence) ==
  LET a == SubBold(sentence, 1)
      b == SubDelim(a, "*", 1)
      c == SubDelim(b, Backquote, 1)
      d == SubHeader(c, 1)
      e == JoinSplit(d)
      f == [i \in 1..Len(e) |-> IF e[i] = "\n" THEN " " ELSE e[i]]
  IN  Strip(f)

\* Jarvis.is_sentence_complete: re.search(r'[.!?]+\s*', text) finds a match
\* exactly when text holds a terminator character.
is_sentence_complete(text) ==
  /\ \E i \in 1..Len(text) : text[i] \in {".", "!", "?"}
  /\ Len(Strip(text)) > 10

\* Whether word w occurs in command c (Python's `w in c` on strings).
Contains(c, w) ==
  \E i \in 1..(Len(c) - Len(w) + 1) : SubSeq(c, i, i + Len(w) - 1) = w

ExitWords == { <<"e","x","i","t">>, <<"s","t","o","p">>, <<"q","u","i","t">>,
               <<"s","h","u","t","d","o","w","n">> }

\* ------------------------------------------------------ sentence detector

\* The least member of a non-empty set of numbers.
Least(S) == CHOOSE j \in S : \A k \in S : j <= k

Terminators == {".", "!", "?"}

\* The search with the pattern [.!?]+\s+ in the place of [.!?]+\s*: a run of
\* terminators counts only when whitespace follows it.
sentence_endings_search_spaced(text) ==
  LET I == {i \in 1..Len(text) :
              /\ text[i] \in Terminators
              /\ RunLen(text, Whitespace, i + RunLen(text, Terminators, i)) >= 1}
  IN  IF I = {} THEN [found |-> FALSE, start |-> 0, end |-> 0]
      ELSE LET i == Least(I)
               t == RunLen(text, Terminators, i)
           IN  [found |-> TRUE, start |-> i - 1,
                end |-> i - 1 + t + RunLen(text, Whitespace, i + t)]

\* sentence_endings.search(text), the pattern [.!?]+\s*: the first run of
\* terminators with the whitespace after it.  start and end are the offsets
\* of Python's match.start() and match.end().
sentence_endings_search(text) ==
  LET I == {i \in 1..Len(text) : text[i] \in Terminators}
  IN  IF I = {} THEN [found |-> FALSE, start |-> 0, end |-> 0]
      ELSE LET i == Least(I)
               t == RunLen(text, Terminators, i)
           IN  [found |-> TRUE, start |-> i - 1,
                end |-> i - 1 + t + RunLen(text, Whitespace, i + t)]

\* text[:n] and text[n:] of Python.
Upto(text, n) == SubSeq(text, 1, IF n < Len(text) THEN n ELSE Len(text))
From(text, n) == SubSeq(text, n + 1, Len(text))

\* The en dash and the em dash, as tokens.
Dashes == {<<"-">>, <<"endash">>, <<"emdash">>}

Conjunctions ==
  { <<"a","n","d">>, <<"b","u","t">>, <<"o","r">>,
    <<"h","o","w","e","v","e","r">>, <<"t","h","e","r","e","f","o","r","e">>,
    <<"m","e","a","n","w","h","i","l","e">> }

\* match.end() of the first match of [,;]\s+ in s; 0 when there is none.
MatchPunctuation(s) ==
  LET J == {j \in 1..(Len(s) - 1) : s[j] \in {",", ";"} /\ s[j + 1] \in Whitespace}
  IN  IF J = {} THEN 0
      ELSE Least(J) + RunLen(s, Whitespace, Least(J) + 1)

\* Whether \s+(w1|w2|...)\s+ matches in s from offset p on, for the words ws:
\* the whole run of whitespace at p, one of the words, whitespace.
WordAt(s, ws, p) ==
  LET q == p + RunLen(s, Whitespace, p)
  IN  {w \in ws : /\ q + Len(w) <= Len(s)
                  /\ SubSeq(s, q, q + Len(w) - 1) = w
                  /\ s[q + Len(w)] \in Whitespace}

\* match.end() of the first match of \s+(w1|w2|...)\s+ in s; 0 when none.
MatchWord(s, ws) ==
  LET P == {p \in 1..Len(s) : s[p] \in Whitespace /\ WordAt(s, ws, p) # {}}
  IN  IF P = {} THEN 0
      ELSE LET p == Least(P)
               q == p + RunLen(s, Whitespace, p)
               w == CHOOSE w \in WordAt(s, ws, p) : TRUE
           IN  q + Len(w) - 1 + RunLen(s, Whitespace, q + Len(w))

\* The closing parentheses that end \(.*?\)\s+ for the parenthesis opened at
\* offset o: followed by whitespace, with no newline in between.
ClosingAt(s, o) ==
  {c \in (o + 1)..(Len(s) - 1) :
     /\ s[c] = ")" /\ s[c + 1] \in Whitespace
     /\ \A x \in (o + 1)..(c - 1) : s[x] # "\n"}

\* match.end() of the first match of \s+\(.*?\)\s+ in s; 0 when none.
MatchParenthesis(s) ==
  LET Open(p) == p + RunLen(s, Whitespace, p)
      P == {p \in 1..Len(s) : /\ s[p] \in Whitespace
                              /\ Open(p) <= Len(s) /\ s[Open(p)] = "("
                              /\ ClosingAt(s, Open(p)) # {}}
  IN  IF P = {} THEN 0
      ELSE LET c == Least(ClosingAt(s, Open(Least(P))))
           IN  c + RunLen(s, Whitespace, c + 1)

\* Number of characters from offset i up to the next whitespace or the end.
WordLen(s, i) ==
  Least({j \in i..(Len(s) + 1) : j > Len(s) \/ s[j] \in Whitespace}) - i

\* str.split(): the words of s.
RECURSIVE Split(_)
Split(s) ==
  LET t == LStrip(s)
  IN  IF t = <<>> THEN <<>>
      ELSE <<SubSeq(t, 1, WordLen(t, 1))>> \o Split(From(t, WordLen(t, 1)))

\* ' '.join(words)
RECURSIVE Join(_)
Join(words) ==
  IF words = <<>> THEN <<>>
  ELSE IF Len(words) = 1 THEN words[1]
  ELSE words[1] \o <<" ">> \o Join(Tail(words))

\* What one call of _extract_sentence leaves: the sentence it returns (<<>>
\* for None), the buffer, and how the sentence was cut.
Extracted(sentence, buffer, how) ==
  [sentence |-> sentence, buffer |-> buffer, how |-> how]

\* A _force_break whose word split leaves the whole text in the buffer.
force_break_keep(text, buffer, min_length) ==
  LET words == Split(text)
  IN  IF Len(words) > 10
      THEN Extracted(Join(SubSeq(words, 1, Len(words) \div 2)), text, "words")
      ELSE Extracted(<<>>, buffer, "none")

\* SentenceDetector._force_break (lines 66-86) on the stripped text, with
\* the buffer as it was.
force_break(text, buffer, min_length) ==
  LET rest == From(text, min_length)
      ends == << MatchPunctuation(rest), MatchWord(rest, Conjunctions),
                 MatchWord(rest, Dashes), MatchParenthesis(rest) >>
      hits == {k \in 1..4 : ends[k] > 0}
      words == Split(text)
  IN  IF hits # {}
      THEN LET break_pos == ends[Least(hits)] + min_length
           IN  Extracted(Strip(Upto(text, break_pos)), From(text, break_pos), "pattern")
      ELSE IF Len(words) > 10
      THEN LET mid_point == Len(words) \div 2
           IN  Extracted(Join(SubSeq(words, 1, mid_point)),
                         Join(SubSeq(words, mid_point + 1, Len(words))), "words")
      ELSE Extracted(<<>>, buffer, "none")

\* A test that accepts every match, whatever lies before it.
AcceptMatchAlways(match, min_length) == match.found

\* The test of line 55 on a match of the terminator pattern.
AcceptMatch(match, min_length) == match.found /\ match.start >= min_length

\* SentenceDetector._extract_sentence (lines 46-64).
extract_sentence(buffer, min_length, max_length) ==
  LET text  == Strip(buffer)
      match == sentence_endings_search(text)
  IN  IF text = <<>> THEN Extracted(<<>>, buffer, "none")
      ELSE IF AcceptMatch(match, min_length)
      THEN Extracted(Strip(Upto(text, match.end)), From(text, match.end), "natural")
      ELSE IF Len(text) > max_length
      THEN force_break(text, buffer, min_length)
      ELSE Extracted(<<>>, buffer, "none")

\* SentenceDetector.__init__ (lines 12-30), with the record of what it was
\* fed: the chunks so far, the result of flush, and the result of a flush
\* repeated at once.
SentenceDetector(min_length, max_length) ==
  [min_length |-> min_length, max_length |-> max_length, buffer |-> <<>>,
   sentence_queue |-> <<>>, pc |-> "ready", chunks |-> <<>>, flushed |-> <<>>,
   again |-> <<>>]

\* ---------------------------------------------------------------- inputs

\* The chunks of the language-model stream: a chunk that completes a sentence
\* and a fragment, in turn.  A stream yields any number of them up to
\* MaxChunks, and may raise instead of yielding.
SentenceChunk == <<"O","n"," ","i","t"," ","n","o","w"," ","s","i","r","."," ">>
FragmentChunk == <<"w","e","l","l"," ">>
DefaultStream == <<SentenceChunk, FragmentChunk>>

\* Streams with markup: emphasis inside one chunk, and a code span that opens
\* in one chunk and closes in the next.
BoldChunk      == <<"*","*","O","n"," ","i","t","*","*"," ","n","o","w","."," ">>
CodeOpenChunk  == <<Backquote,"R","u","n"," ","t","h","i","s"," ","n","o","w","."," ">>
CodeCloseChunk == <<"t","h","e","n"," ","s","t","o","p",".",Backquote," ">>
Streams == { DefaultStream, <<BoldChunk, FragmentChunk>>,
             <<CodeOpenChunk, CodeCloseChunk>> }

\* The text w repeated n times.
RECURSIVE Repeat(_, _)
Repeat(w, n) == IF n = 0 THEN <<>> ELSE w \o Repeat(w, n - 1)

\* The chunks of the example of three chunks.
WeatherChunks == << <<"T","h","e"," ","w","e","a","t","h","e","r"," ">>,
                    <<"t","o","d","a","y"," ","i","s"," ","s","u","n","n","y","."," ">>,
                    <<"I","t"," ","w","i","l","l"," ","r","a","i","n"," ","t","o","m","o","r","r","o","w",".">> >>

\* 250 characters without punctuation: fifty words, and one unbroken run.
LongWords == Repeat(<<"w","o","r","d"," ">>, 50)
LongRun   == Repeat(<<"a","a","a","a","a","a","a","a","a","a">>, 25)

\* The detectors constructed: the defaults of line 12, and short lengths.
DetectorConfigs == { [min_length |-> 15, max_length |-> 200],
                     [min_length |-> 3, max_length |-> 10] }

\* Chunks fed to a detector with short lengths: sentences and fragments with
\* and without whitespace at their ends, a terminator inside the minimum
\* length, empty and blank chunks, and long text with each kind of secondary
\* break, with two kinds of secondary break, with more than ten words, and
\* with nothing to break at.
ShortChunks ==
  { <<>>,
    <<" ">>,
    <<"a","b","c","."," ">>,
    <<"H","i","."," ">>,
    <<"s","o","."," ","I","t"," ">>,
    <<"e","f"," ">>,
    <<"g","h">>,
    <<"o","n","e",","," ","t","w","o"," ","t","h","r","e","e">>,
    <<"r","e","d"," ","a","n","d"," ","b","l","u","e"," ","s","k","y"," ","o","n">>,
    <<"r","e","d"," ","a","n","d"," ","b","l","u","e",","," ","s","k","y">>,
    <<"w","e","l","l"," ","-"," ","s","o"," ","g","o"," ","o","n">>,
    <<"s","e","e"," ","(","i","t",")"," ","t","h","e","n"," ","g","o"," ","o","n">>,
    <<"a"," ","b"," ","c"," ","d"," ","e"," ","f"," ","g"," ","h"," ","i"," ","j"," ","k"," ","l">>,
    <<"a","b","c","d","e","f","g","h","i","j","k","l","m">>
  }

\* The chunks fed to a detector, by its min_length.
ChunksFor(min_length) ==
  IF min_length = 15
  THEN {WeatherChunks[i] : i \in 1..3} \cup {LongWords, LongRun}
  ELSE ShortChunks

\* Results of command capture: nothing heard, blank text, a command, an exit
\* command.
Commands == { <<>>, <<" ">>, <<"h","i">>, <<"q","u","i","t">> }

\* The fixed phrases of the pipeline.
AckText      == <<"Y","e","s"," ","s","i","r","?">>
ShutdownText == <<"S","h","u","t","t","i","n","g"," ","d","o","w","n"," ","s","y","s","t","e","m","s">>
FallbackText ==
  <<"I","'","m"," ","h","a","v","i","n","g"," ","t","r","o","u","b","l","e"," ","p","r","o","c","e","s","s","i","n","g"," ","t","h","a","t"," ","r","e","q","u","e","s","t",".">>
BootText     ==
  <<"E","n","h","a","n","c","e","d"," ","s","y","s","t","e","m","s"," ","r","e","a","d","y","."," ","S","a","y"," ","j","a","r","v","i","s"," ","t","o"," ","b","e","g","i","n",".">>

\* ------------------------------------------------------------------ state

\* A unit of speech: its text, and for the record the session that produced
\* it (0: none) and its place among that session's enqueued units.
Unit(s, k, t) == [sess |-> s, n |-> k, text |-> t]
NoUnit        == Unit(0, 0, <<>>)

WorkerId  == <<"worker", 0>>
WakeId(h) == <<"wake", h>>
GenId(s)  == <<"gen", s>>

Handlers == 1..MaxWakes
Sessions == 1..MaxSessions

VARIABLES
  interrupt_flag,        \* threading.Event: the cancellation signal
  currently_speaking,    \* bool
  processing_response,   \* bool
  response_lock,         \* 0 when free, else the wake handler holding it
  speech_queue,          \* queue.Queue of units
  stop_event,            \* threading.Event
  memory,                \* turns saved by memory.save_context
  speaker,               \* the engine: the Speak calls in progress
  audio_active,          \* whether the audio stream delivers frames
  worker,                \* the speech_handler thread
  listener,              \* the wake_word_listener thread
  main,                  \* the thread in run()
  wake,                  \* the on_wake_word_detected threads
  gen,                   \* the generate_buffered_response threads
  disturbed,             \* record: sessions during which a wake handler acted
  nspoken,               \* record: units of each session the worker began to speak
  detector,              \* a SentenceDetector of src/sentence_detector_corrected.py
  audio_stream,          \* whether self.audio_stream exists (pa.open has returned)
  speech_errors,         \* record: units whose Speak call by the worker raised
  model_stream,          \* the chunks that chain.stream yields, in turn
  is_running,            \* JarvisController.is_running of the dashboard
  after_stop             \* record: units the worker took and began with stop_event set

vars == <<interrupt_flag, currently_speaking, processing_response, response_lock,
          speech_queue, stop_event, memory, speaker, audio_active, worker,
          listener, main, wake, gen, disturbed, nspoken, detector, audio_stream,
          speech_errors, model_stream, is_running, after_stop>>

\* The state of the voice pipeline.
pipeline == <<interrupt_flag, currently_speaking, processing_response,
              response_lock, speech_queue, stop_event, memory, speaker,
              audio_active, worker, listener, main, wake, gen, disturbed, nspoken,
              audio_stream, speech_errors, model_stream, is_running, after_stop>>

shared == <<interrupt_flag, currently_speaking, processing_response, response_lock,
            speech_queue, stop_event, memory, speaker, audio_active>>

record == <<disturbed, nspoken>>

\* The i-th chunk that chain.stream yields (lines 245-248).
StreamChunk(i) == model_stream[((i - 1) % Len(model_stream)) + 1]

WakeInit == [pc |-> "idle", say |-> "", command |-> <<>>,
             base |-> 0, acks |-> 0, listens |-> 0, raised |-> FALSE]

GenInit == [pc |-> "idle", command |-> <<>>, idx |-> 0, sentence_buffer |-> <<>>,
            full_response |-> <<>>, sentence |-> <<>>, eos |-> FALSE, nenq |-> 0,
            streams |-> 0, failed |-> FALSE, fallbacks |-> 0, saved |-> FALSE,
            cancel_seen |-> FALSE]

\* The worker at its loop test, holding nothing.  during_clear is a record:
\* whether the unit it holds was dequeued while a clear_all_queues was running.
WorkerInit == [pc |-> "L328", text |-> NoUnit, during_clear |-> FALSE]

\* The state after Jarvis.__init__: both daemon threads started, run() not
\* yet entered.
PipelineInit ==
  /\ interrupt_flag = FALSE
  /\ currently_speaking = FALSE
  /\ processing_response = FALSE
  /\ response_lock = 0
  /\ speech_queue = <<>>
  /\ stop_event = FALSE
  /\ memory = <<>>
  /\ speaker = {}
  /\ audio_active = FALSE
  /\ worker = WorkerInit
  /\ listener = "L345"
  /\ main = "L359"
  /\ wake = [h \in Handlers |-> WakeInit]
  /\ gen = [s \in Sessions |-> GenInit]
  /\ disturbed = {}
  /\ nspoken = [s \in Sessions |-> 0]
  /\ audio_stream = TRUE
  /\ speech_errors = {}
  /\ is_running = TRUE
  /\ after_stop = [taken |-> {}, begun |-> {}]

\* The pipeline, and a detector with the default lengths that is fed nothing.
Init ==
  /\ PipelineInit
  /\ model_stream = DefaultStream
  /\ detector = SentenceDetector(15, 200)

\* ----------------------------------------------------------------- engine

\* speaker.Speak(text) is entered by thread tid.
BeginSpeak(tid, u) == speaker \cup {[by |-> tid, unit |-> u, stopped |-> FALSE]}

\* The Speak call of thread tid returns: the text is finished, the call was
\* stopped, or the engine raised (every caller catches that and goes on).
EndSpeak(tid) == {c \in speaker : c.by # tid}

\* speaker.Speak("") and speaker.Skip("Sentence"): the calls in progress are
\* told to return early.
StopSpeech == {[c EXCEPT !.stopped = TRUE] : c \in speaker}

Spawned == {s \in Sessions : gen[s].pc # "idle"}
Running == {s \in Sessions : gen[s].pc \notin {"idle", "done"}}

\* ----------------------------------------------------------------- worker

\* A loop test that does not look at stop_event.
speech_handler_loop_forever ==
  /\ worker.pc = "L328"
  /\ worker' = [worker EXCEPT !.pc = "L331"]
  /\ UNCHANGED <<shared, listener, main, wake, gen, record>>
  /\ UNCHANGED <<detector, audio_stream, speech_errors, model_stream, is_running, after_stop>>

\* speech_handler, line 328: the loop test.
speech_handler_loop ==
  /\ worker.pc = "L328"
  /\ worker' = [worker EXCEPT !.pc = IF stop_event THEN "done" ELSE "L331"]
  /\ UNCHANGED <<shared, listener, main, wake, gen, record>>
  /\ UNCHANGED <<detector, audio_stream, speech_errors, model_stream, is_running, after_stop>>

\* The wake handlers inside clear_all_queues (lines 143-147).
Clearing == {h \in Handlers : wake[h].pc \in {"L143", "L145"}}

\* queue.Queue is first in, first out: put appends at the tail, get takes the
\* head.
QueueGet(q) == Tail(q)
QueueHead(q) == Head(q)

\* A put that adds in front of the units already waiting, as queue.LifoQueue
\* would.
QueuePutInFront(q, u) == <<u>> \o q

QueuePut(q, u) == Append(q, u)

\* speech_handler, line 331: speech_queue.get(timeout=0.1); queue.Empty
\* leads back to the loop test.
speech_handler_get ==
  /\ worker.pc = "L331"
  /\ IF speech_queue # <<>>
     THEN /\ worker' = [pc |-> "L334", text |-> QueueHead(speech_queue),
                         during_clear |-> Clearing # {}]
          /\ speech_queue' = QueueGet(speech_queue)
     ELSE /\ worker' = [worker EXCEPT !.pc = "L328"]
          /\ UNCHANGED speech_queue
  /\ after_stop' = IF stop_event /\ speech_queue # <<>>
                   THEN [after_stop EXCEPT !.taken = @ \cup {QueueHead(speech_queue)}]
                   ELSE after_stop
  /\ UNCHANGED <<interrupt_flag, currently_speaking, processing_response,
                 response_lock, stop_event, memory, speaker, audio_active,
                 listener, main, wake, gen, record>>
  /\ UNCHANGED <<detector, audio_stream, speech_errors, model_stream, is_running>>

\* speech_handler, line 334: the unit is dropped when the signal is set.
speech_handler_check ==
  /\ worker.pc = "L334"
  /\ worker' = IF interrupt_flag THEN WorkerInit
                ELSE [worker EXCEPT !.pc = "L310"]
  /\ UNCHANGED <<shared, listener, main, wake, gen, record>>
  /\ UNCHANGED <<detector, audio_stream, speech_errors, model_stream, is_running, after_stop>>

\* speak_interruptible, line 310.
speak_interruptible_check ==
  /\ worker.pc = "L310"
  /\ worker' = IF worker.text.text = <<>> \/ interrupt_flag
                THEN WorkerInit
                ELSE [worker EXCEPT !.pc = "L313"]
  /\ UNCHANGED <<shared, listener, main, wake, gen, record>>
  /\ UNCHANGED <<detector, audio_stream, speech_errors, model_stream, is_running, after_stop>>

\* speak_interruptible, line 313.
speak_interruptible_mark ==
  /\ worker.pc = "L313"
  /\ currently_speaking' = TRUE
  /\ worker' = [worker EXCEPT !.pc = "L315"]
  /\ UNCHANGED <<interrupt_flag, processing_response, response_lock, speech_queue,
                 stop_event, memory, speaker, audio_active, listener, main, wake,
                 gen, record>>
  /\ UNCHANGED <<detector, audio_stream, speech_errors, model_stream, is_running, after_stop>>

\* speak_interruptible, line 315: the engine starts to synthesize the unit.
speak_interruptible_speak ==
  /\ worker.pc = "L315"
  /\ speaker' = BeginSpeak(WorkerId, worker.text)
  /\ worker' = [worker EXCEPT !.pc = "L315r"]
  /\ nspoken' = IF worker.text.sess \in Sessions
                 THEN [nspoken EXCEPT ![worker.text.sess] = @ + 1]
                 ELSE nspoken
  /\ after_stop' = IF stop_event
                   THEN [after_stop EXCEPT !.begun = @ \cup {worker.text}]
                   ELSE after_stop
  /\ UNCHANGED <<interrupt_flag, currently_speaking, processing_response,
                 response_lock, speech_queue, stop_event, memory, audio_active,
                 listener, main, wake, gen, disturbed>>
  /\ UNCHANGED <<detector, audio_stream, speech_errors, model_stream, is_running>>

\* speak_interruptible, lines 315-317: Speak returns or raises.
speak_interruptible_return ==
  /\ worker.pc = "L315r"
  /\ speaker' = EndSpeak(WorkerId)
  /\ worker' = [worker EXCEPT !.pc = "L319"]
  /\ UNCHANGED <<interrupt_flag, currently_speaking, processing_response,
                 response_lock, speech_queue, stop_event, memory, audio_active,
                 listener, main, wake, gen, record>>
  /\ UNCHANGED <<detector, audio_stream, speech_errors, model_stream, is_running, after_stop>>

\* A Speak that raises out of speak_interruptible and speech_handler: the
\* thread of the worker ends with the exception.
speak_interruptible_raise_uncaught ==
  /\ worker.pc = "L315r"
  /\ speaker' = EndSpeak(WorkerId)
  /\ speech_errors' = speech_errors \cup {worker.text}
  /\ worker' = [worker EXCEPT !.pc = "done"]
  /\ UNCHANGED <<interrupt_flag, currently_speaking, processing_response,
                 response_lock, speech_queue, stop_event, memory, audio_active,
                 listener, main, wake, gen, record>>
  /\ UNCHANGED <<detector, audio_stream, model_stream, is_running, after_stop>>

\* speak_interruptible, lines 315-317: Speak raises, the except clause prints
\* the error.  The step of speak_interruptible_return for a call that
\* raises, with the unit recorded.
speak_interruptible_raise ==
  /\ worker.pc = "L315r"
  /\ speaker' = EndSpeak(WorkerId)
  /\ speech_errors' = speech_errors \cup {worker.text}
  /\ worker' = [worker EXCEPT !.pc = "L319"]
  /\ UNCHANGED <<interrupt_flag, currently_speaking, processing_response,
                 response_lock, speech_queue, stop_event, memory, audio_active,
                 listener, main, wake, gen, record>>
  /\ UNCHANGED <<detector, audio_stream, model_stream, is_running, after_stop>>

\* speak_interruptible, line 319, and back to the loop of speech_handler.
speak_interruptible_finally ==
  /\ worker.pc = "L319"
  /\ currently_speaking' = FALSE
  /\ worker' = WorkerInit
  /\ UNCHANGED <<interrupt_flag, processing_response, response_lock, speech_queue,
                 stop_event, memory, speaker, audio_active, listener, main, wake,
                 gen, record>>
  /\ UNCHANGED <<detector, audio_stream, speech_errors, model_stream, is_running, after_stop>>

\* ------------------------------------------------------------ constructor

\* __init__, lines 25-33, with setup_wake_word_detector, lines 76-90:
\* pvporcupine.create and pa.open succeed.
setup_wake_word_detector ==
  /\ main = "L32"
  /\ audio_stream' = TRUE
  /\ main' = "L36"
  /\ UNCHANGED <<shared, worker, listener, wake, gen, record, detector,
                 speech_errors, model_stream, is_running, after_stop>>

\* A setup that prints the error and returns: the constructor goes on at
\* line 36 without a classifier or a stream.
setup_wake_word_detector_swallow ==
  /\ main = "L32"
  /\ main' = "L36"
  /\ UNCHANGED <<shared, worker, listener, wake, gen, record, detector, audio_stream,
                 speech_errors, model_stream, is_running, after_stop>>

\* setup_wake_word_detector, lines 91-93: pvporcupine.create or pa.open
\* raises, the error is printed and raised again; __init__ has no handler
\* around line 33, so the constructor ends with the exception (caught by
\* initialize_jarvis, lines 218-220 of jarvis_gaming_dashboard.py, which
\* leaves self.jarvis None, or by line 409).
setup_wake_word_detector_raise ==
  /\ main = "L32"
  /\ main' = "raised"
  /\ UNCHANGED <<shared, worker, listener, wake, gen, record, detector, audio_stream,
                 speech_errors, model_stream, is_running, after_stop>>

\* __init__, lines 36-70: flags, model, memory, queue, and the two daemon
\* threads are started; the caller then enters run().
init_threads ==
  /\ main = "L36"
  /\ worker' = WorkerInit
  /\ listener' = "L345"
  /\ main' = "L359"
  /\ UNCHANGED <<shared, wake, gen, record, detector, audio_stream, speech_errors, model_stream, is_running, after_stop>>

\* ------------------------------------------------- main thread, listener

\* run, line 359: speak() queues the start-up announcement.
run_announce ==
  /\ main = "L359"
  /\ speech_queue' = QueuePut(speech_queue, Unit(0, 1, BootText))
  /\ main' = "L362"
  /\ UNCHANGED <<interrupt_flag, currently_speaking, processing_response,
                 response_lock, stop_event, memory, speaker, audio_active, worker,
                 listener, wake, gen, record>>
  /\ UNCHANGED <<detector, audio_stream, speech_errors, model_stream, is_running, after_stop>>

\* run, lines 362-372: the loop ends once stop_event is set.
run_loop ==
  /\ main = "L362"
  /\ stop_event
  /\ main' = "L379"
  /\ UNCHANGED <<shared, worker, listener, wake, gen, record>>
  /\ UNCHANGED <<detector, audio_stream, speech_errors, model_stream, is_running, after_stop>>

\* cleanup, lines 379-392.
cleanup ==
  /\ main = "L379"
  /\ stop_event' = TRUE
  /\ audio_active' = FALSE
  /\ main' = "done"
  /\ UNCHANGED <<interrupt_flag, currently_speaking, processing_response,
                 response_lock, speech_queue, memory, speaker, worker, listener,
                 wake, gen, record>>
  /\ UNCHANGED <<detector, audio_stream, speech_errors, model_stream, is_running, after_stop>>

\* run, lines 365-370: an exception in the loop (KeyboardInterrupt on the
\* main thread, or any other) sets stop_event and goes on to cleanup.
run_interrupt ==
  /\ main = "L362"
  /\ stop_event' = TRUE
  /\ main' = "L379"
  /\ UNCHANGED <<interrupt_flag, currently_speaking, processing_response,
                 response_lock, speech_queue, memory, speaker, audio_active,
                 worker, listener, wake, gen, record>>
  /\ UNCHANGED <<detector, audio_stream, speech_errors, model_stream, is_running, after_stop>>

\* JarvisController.stop_jarvis, src/jarvis_gaming_dashboard.py lines 230-236,
\* on the thread of the user interface.
stop_jarvis ==
  /\ is_running
  /\ is_running' = FALSE
  /\ stop_event' = TRUE
  /\ UNCHANGED <<interrupt_flag, currently_speaking, processing_response,
                 response_lock, speech_queue, memory, speaker, audio_active,
                 worker, listener, main, wake, gen, record>>
  /\ UNCHANGED <<detector, audio_stream, speech_errors, model_stream, after_stop>>

\* wake_word_listener, line 345: audio_stream.start_stream().
wake_word_listener_start ==
  /\ listener = "L345"
  /\ audio_active' = TRUE
  /\ listener' = "L348"
  /\ UNCHANGED <<interrupt_flag, currently_speaking, processing_response,
                 response_lock, speech_queue, stop_event, memory, speaker, worker,
                 main, wake, gen, record>>
  /\ UNCHANGED <<detector, audio_stream, speech_errors, model_stream, is_running, after_stop>>

\* wake_word_listener, lines 348-355: the loop ends once stop_event is set
\* and the stream is stopped.
wake_word_listener_stop ==
  /\ listener = "L348"
  /\ stop_event
  /\ audio_active' = FALSE
  /\ listener' = "done"
  /\ UNCHANGED <<interrupt_flag, currently_speaking, processing_response,
                 response_lock, speech_queue, stop_event, memory, speaker, worker,
                 main, wake, gen, record>>
  /\ UNCHANGED <<detector, audio_stream, speech_errors, model_stream, is_running, after_stop>>

\* ---------------------------------------------------------- wake handlers

Live == {h \in Handlers : wake[h].pc \notin {"idle", "done"}}

\* Every step of a wake handler counts as an interruption of the sessions
\* started so far.
Disturb == disturbed' = disturbed \cup Spawned

\* A callback that calls on_wake_word_detected on its own thread of control:
\* it takes the next frame only when the handler has returned.
wake_word_callback_inline ==
  /\ audio_active
  /\ Live = {}
  /\ \E h \in Handlers :
       /\ wake[h].pc = "idle"
       /\ \A k \in Handlers : k < h => wake[k].pc # "idle"
       /\ wake' = [wake EXCEPT ![h] = [WakeInit EXCEPT !.pc = "L114",
                                                        !.base = Cardinality(Spawned)]]
  /\ interrupt_flag' = TRUE
  /\ gen' = [s \in Sessions |->
               IF s \in Running THEN [gen[s] EXCEPT !.cancel_seen = TRUE] ELSE gen[s]]
  /\ Disturb
  /\ UNCHANGED <<currently_speaking, processing_response, response_lock,
                 speech_queue, stop_event, memory, speaker, audio_active, worker,
                 listener, main, nspoken>>
  /\ UNCHANGED <<detector, audio_stream, speech_errors, model_stream, is_running, after_stop>>

\* wake_word_callback, lines 95-104, on a frame porcupine.process reports as
\* the wake word: a new thread is started on on_wake_word_detected and the
\* callback returns (a negative frame changes nothing); the thread's first
\* statement, line 111, sets the signal.
wake_word_callback ==
  /\ audio_active
  /\ \E h \in Handlers :
       /\ wake[h].pc = "idle"
       /\ \A k \in Handlers : k < h => wake[k].pc # "idle"
       /\ wake' = [wake EXCEPT ![h] = [WakeInit EXCEPT !.pc = "L114",
                                                        !.base = Cardinality(Spawned)]]
  /\ interrupt_flag' = TRUE
  /\ gen' = [s \in Sessions |->
               IF s \in Running THEN [gen[s] EXCEPT !.cancel_seen = TRUE] ELSE gen[s]]
  /\ Disturb
  /\ UNCHANGED <<currently_speaking, processing_response, response_lock,
                 speech_queue, stop_event, memory, speaker, audio_active, worker,
                 listener, main, nspoken>>
  /\ UNCHANGED <<detector, audio_stream, speech_errors, model_stream, is_running, after_stop>>

\* Sessions started before some wake handler set the signal.
Cancelled == {s \in Sessions : \E h \in Handlers :
                wake[h].pc # "idle" /\ s <= wake[h].base}

\* on_wake_word_detected, line 114.
wake_test_speaking(h) ==
  /\ wake[h].pc = "L114"
  /\ wake' = [wake EXCEPT ![h].pc = IF currently_speaking THEN "L117" ELSE "L143"]
  /\ Disturb
  /\ UNCHANGED <<shared, worker, listener, main, gen, nspoken>>
  /\ UNCHANGED <<detector, audio_stream, speech_errors, model_stream, is_running, after_stop>>

\* on_wake_word_detected, lines 116-122: Speak("") and Skip ask the engine to
\* stop, or the engine raises and the bare except passes; then sleep(0.1).
wake_stop_speech(h) ==
  /\ wake[h].pc = "L117"
  /\ \E raised \in BOOLEAN : speaker' = IF raised THEN speaker ELSE StopSpeech
  /\ wake' = [wake EXCEPT ![h].pc = "L143"]
  /\ Disturb
  /\ UNCHANGED <<interrupt_flag, currently_speaking, processing_response,
                 response_lock, speech_queue, stop_event, memory, audio_active,
                 worker, listener, main, gen, nspoken>>
  /\ UNCHANGED <<detector, audio_stream, speech_errors, model_stream, is_running, after_stop>>

\* Where a handler goes when the loop of clear_all_queues ends: back into
\* on_wake_word_detected (line 126), or out of the with block of
\* process_command (line 227), which releases response_lock.
AfterClear(h) == IF response_lock = h THEN "L230" ELSE "L126"
LockKept(h) == response_lock
LockAfterClear(h) == IF response_lock = h THEN 0 ELSE response_lock

\* clear_all_queues, line 143: the loop test.
clear_all_queues_test(h) ==
  /\ wake[h].pc = "L143"
  /\ IF speech_queue = <<>>
     THEN /\ wake' = [wake EXCEPT ![h].pc = AfterClear(h)]
          /\ response_lock' = LockAfterClear(h)
     ELSE /\ wake' = [wake EXCEPT ![h].pc = "L145"]
          /\ UNCHANGED response_lock
  /\ Disturb
  /\ UNCHANGED <<interrupt_flag, currently_speaking, processing_response,
                 speech_queue, stop_event, memory, speaker, audio_active, worker,
                 listener, main, gen, nspoken>>
  /\ UNCHANGED <<detector, audio_stream, speech_errors, model_stream, is_running, after_stop>>

\* clear_all_queues, lines 145-147: get_nowait, and break on queue.Empty.
clear_all_queues_get(h) ==
  /\ wake[h].pc = "L145"
  /\ IF speech_queue # <<>>
     THEN /\ speech_queue' = QueueGet(speech_queue)
          /\ wake' = [wake EXCEPT ![h].pc = "L143"]
          /\ UNCHANGED response_lock
     ELSE /\ wake' = [wake EXCEPT ![h].pc = AfterClear(h)]
          /\ response_lock' = LockAfterClear(h)
          /\ UNCHANGED speech_queue
  /\ Disturb
  /\ UNCHANGED <<interrupt_flag, currently_speaking, processing_response,
                 stop_event, memory, speaker, audio_active, worker, listener, main,
                 gen, nspoken>>
  /\ UNCHANGED <<detector, audio_stream, speech_errors, model_stream, is_running, after_stop>>

\* on_wake_word_detected, line 126.
wake_reset_speaking(h) ==
  /\ wake[h].pc = "L126"
  /\ currently_speaking' = FALSE
  /\ wake' = [wake EXCEPT ![h].pc = "L127"]
  /\ Disturb
  /\ UNCHANGED <<interrupt_flag, processing_response, response_lock, speech_queue,
                 stop_event, memory, speaker, audio_active, worker, listener, main,
                 gen, nspoken>>
  /\ UNCHANGED <<detector, audio_stream, speech_errors, model_stream, is_running, after_stop>>

\* on_wake_word_detected, lines 127-130: the reset, then sleep(0.3).
wake_reset_processing(h) ==
  /\ wake[h].pc = "L127"
  /\ processing_response' = FALSE
  /\ wake' = [wake EXCEPT ![h].pc = "L133"]
  /\ Disturb
  /\ UNCHANGED <<interrupt_flag, currently_speaking, response_lock, speech_queue,
                 stop_event, memory, speaker, audio_active, worker, listener, main,
                 gen, nspoken>>
  /\ UNCHANGED <<detector, audio_stream, speech_errors, model_stream, is_running, after_stop>>

\* A handler in which line 133 is missing: the acknowledgement is entered
\* with the signal as it is.
wake_keep_flag(h) ==
  /\ wake[h].pc = "L133"
  /\ wake' = [wake EXCEPT ![h].pc = "L155", ![h].say = "ack"]
  /\ Disturb
  /\ UNCHANGED <<shared, worker, listener, main, gen, nspoken>>
  /\ UNCHANGED <<detector, audio_stream, speech_errors, model_stream, is_running, after_stop>>

\* on_wake_word_detected, lines 133-134: the signal is cleared and
\* speak_immediately("Yes sir?") is entered.
wake_clear_flag(h) ==
  /\ wake[h].pc = "L133"
  /\ interrupt_flag' = FALSE
  /\ wake' = [wake EXCEPT ![h].pc = "L155", ![h].say = "ack"]
  /\ Disturb
  /\ UNCHANGED <<currently_speaking, processing_response, response_lock,
                 speech_queue, stop_event, memory, speaker, audio_active, worker,
                 listener, main, gen, nspoken>>
  /\ UNCHANGED <<detector, audio_stream, speech_errors, model_stream, is_running, after_stop>>

\* The phrase a wake handler passes to speak_immediately.
Phrase(say) == IF say = "ack" THEN AckText ELSE ShutdownText

\* speak_immediately, line 155, called by a wake handler.
wake_speak_test(h) ==
  /\ wake[h].pc = "L155"
  /\ wake' = [wake EXCEPT ![h].pc = IF currently_speaking THEN "L157" ELSE "L162"]
  /\ Disturb
  /\ UNCHANGED <<shared, worker, listener, main, gen, nspoken>>
  /\ UNCHANGED <<detector, audio_stream, speech_errors, model_stream, is_running, after_stop>>

\* speak_immediately, lines 156-159: Speak("") asks the engine to stop, or
\* raises into the bare except.
wake_speak_stop(h) ==
  /\ wake[h].pc = "L157"
  /\ \E raised \in BOOLEAN : speaker' = IF raised THEN speaker ELSE StopSpeech
  /\ wake' = [wake EXCEPT ![h].pc = "L162"]
  /\ Disturb
  /\ UNCHANGED <<interrupt_flag, currently_speaking, processing_response,
                 response_lock, speech_queue, stop_event, memory, audio_active,
                 worker, listener, main, gen, nspoken>>
  /\ UNCHANGED <<detector, audio_stream, speech_errors, model_stream, is_running, after_stop>>

\* speak_immediately, line 162.
wake_speak_mark(h) ==
  /\ wake[h].pc = "L162"
  /\ currently_speaking' = TRUE
  /\ wake' = [wake EXCEPT ![h].pc = "L164"]
  /\ Disturb
  /\ UNCHANGED <<interrupt_flag, processing_response, response_lock, speech_queue,
                 stop_event, memory, speaker, audio_active, worker, listener, main,
                 gen, nspoken>>
  /\ UNCHANGED <<detector, audio_stream, speech_errors, model_stream, is_running, after_stop>>

\* speak_immediately, line 164: the engine starts to synthesize the phrase.
wake_speak_speak(h) ==
  /\ wake[h].pc = "L164"
  /\ speaker' = BeginSpeak(WakeId(h), Unit(0, 0, Phrase(wake[h].say)))
  /\ wake' = [wake EXCEPT ![h].pc = "L164r",
                          ![h].acks = IF wake[h].say = "ack" THEN @ + 1 ELSE @]
  /\ Disturb
  /\ UNCHANGED <<interrupt_flag, currently_speaking, processing_response,
                 response_lock, speech_queue, stop_event, memory, audio_active,
                 worker, listener, main, gen, nspoken>>
  /\ UNCHANGED <<detector, audio_stream, speech_errors, model_stream, is_running, after_stop>>

\* speak_immediately, lines 164-166: Speak returns or raises.
wake_speak_return(h) ==
  /\ wake[h].pc = "L164r"
  /\ speaker' = EndSpeak(WakeId(h))
  /\ wake' = [wake EXCEPT ![h].pc = "L168"]
  /\ Disturb
  /\ UNCHANGED <<interrupt_flag, currently_speaking, processing_response,
                 response_lock, speech_queue, stop_event, memory, audio_active,
                 worker, listener, main, gen, nspoken>>
  /\ UNCHANGED <<detector, audio_stream, speech_errors, model_stream, is_running, after_stop>>

\* speak_immediately's last step with on_wake_word_detected returning right
\* after the acknowledgement, without listening for a command.
wake_speak_finally_return(h) ==
  /\ wake[h].pc = "L168"
  /\ currently_speaking' = FALSE
  /\ wake' = [wake EXCEPT ![h].pc = IF wake[h].say = "ack" THEN "done" ELSE "L220"]
  /\ Disturb
  /\ UNCHANGED <<interrupt_flag, processing_response, response_lock, speech_queue,
                 stop_event, memory, speaker, audio_active, worker, listener, main,
                 gen, nspoken>>
  /\ UNCHANGED <<detector, audio_stream, speech_errors, model_stream, is_running, after_stop>>

\* speak_immediately, line 168, and back to the caller: line 137 after the
\* acknowledgement, line 220 after the shutdown phrase.
wake_speak_finally(h) ==
  /\ wake[h].pc = "L168"
  /\ currently_speaking' = FALSE
  /\ wake' = [wake EXCEPT ![h].pc = IF wake[h].say = "ack" THEN "L137" ELSE "L220"]
  /\ Disturb
  /\ UNCHANGED <<interrupt_flag, processing_response, response_lock, speech_queue,
                 stop_event, memory, speaker, audio_active, worker, listener, main,
                 gen, nspoken>>
  /\ UNCHANGED <<detector, audio_stream, speech_errors, model_stream, is_running, after_stop>>

\* Handlers that hold a command for which they will start a session.
Committed == {h \in Handlers : wake[h].pc # "done" /\ wake[h].command # <<>>}

\* process_command, line 218.
IsExit(command) == \E w \in ExitWords : Contains(command, w)

\* on_wake_word_detected, lines 137-139, with listen (lines 190-210, which
\* returns "" on every failure) and the tests that open process_command
\* (lines 214-219).
wake_listen(h) ==
  /\ wake[h].pc = "L137"
  /\ \E command \in Commands :
       /\ (command # <<>> /\ Strip(command) # <<>> /\ ~IsExit(command))
            => Cardinality(Spawned) + Cardinality(Committed) < MaxSessions
       /\ wake' = [wake EXCEPT
            ![h].listens = @ + 1,
            ![h].pc = IF command = <<>> \/ Strip(command) = <<>> THEN "done"
                      ELSE IF IsExit(command) THEN "L155" ELSE "L224",
            ![h].say = IF command # <<>> /\ Strip(command) # <<>> /\ IsExit(command)
                       THEN "shutdown" ELSE @,
            ![h].command = IF command # <<>> /\ Strip(command) # <<>>
                              /\ ~IsExit(command)
                           THEN command ELSE @]
  /\ Disturb
  /\ UNCHANGED <<shared, worker, listener, main, gen, nspoken>>
  /\ UNCHANGED <<detector, audio_stream, speech_errors, model_stream, is_running, after_stop>>

\* listen, line 196: sr.Microphone() and the entry of the with block stand
\* before the try of line 197, so an input device that cannot be opened
\* raises out of listen; on_wake_word_detected has no handler around line 137
\* and the thread ends with the exception.  raised is a record of it.
wake_listen_raise(h) ==
  /\ wake[h].pc = "L137"
  /\ wake' = [wake EXCEPT ![h].listens = @ + 1, ![h].raised = TRUE, ![h].pc = "done"]
  /\ Disturb
  /\ UNCHANGED <<shared, worker, listener, main, gen, nspoken>>
  /\ UNCHANGED <<detector, audio_stream, speech_errors, model_stream, is_running, after_stop>>

\* A process_command that returns after the shutdown phrase without setting
\* stop_event.
process_command_stop_skip(h) ==
  /\ wake[h].pc = "L220"
  /\ wake' = [wake EXCEPT ![h].pc = "done"]
  /\ Disturb
  /\ UNCHANGED <<shared, worker, listener, main, gen, nspoken>>
  /\ UNCHANGED <<detector, audio_stream, speech_errors, model_stream, is_running, after_stop>>

\* process_command, lines 220-221.
process_command_stop(h) ==
  /\ wake[h].pc = "L220"
  /\ stop_event' = TRUE
  /\ wake' = [wake EXCEPT ![h].pc = "done"]
  /\ Disturb
  /\ UNCHANGED <<interrupt_flag, currently_speaking, processing_response,
                 response_lock, speech_queue, memory, speaker, audio_active, worker,
                 listener, main, gen, nspoken>>
  /\ UNCHANGED <<detector, audio_stream, speech_errors, model_stream, is_running, after_stop>>

\* process_command, line 224: response_lock is acquired.
process_command_lock(h) ==
  /\ wake[h].pc = "L224"
  /\ response_lock = 0
  /\ response_lock' = h
  /\ wake' = [wake EXCEPT ![h].pc = "L225"]
  /\ Disturb
  /\ UNCHANGED <<interrupt_flag, currently_speaking, processing_response,
                 speech_queue, stop_event, memory, speaker, audio_active, worker,
                 listener, main, gen, nspoken>>
  /\ UNCHANGED <<detector, audio_stream, speech_errors, model_stream, is_running, after_stop>>

\* process_command, line 225.
process_command_mark(h) ==
  /\ wake[h].pc = "L225"
  /\ processing_response' = TRUE
  /\ wake' = [wake EXCEPT ![h].pc = "L226"]
  /\ Disturb
  /\ UNCHANGED <<interrupt_flag, currently_speaking, response_lock, speech_queue,
                 stop_event, memory, speaker, audio_active, worker, listener, main,
                 gen, nspoken>>
  /\ UNCHANGED <<detector, audio_stream, speech_errors, model_stream, is_running, after_stop>>

\* process_command, lines 226-227: the signal is cleared and clear_all_queues
\* is entered, the lock still held.
process_command_clear(h) ==
  /\ wake[h].pc = "L226"
  /\ interrupt_flag' = FALSE
  /\ wake' = [wake EXCEPT ![h].pc = "L143"]
  /\ Disturb
  /\ UNCHANGED <<currently_speaking, processing_response, response_lock,
                 speech_queue, stop_event, memory, speaker, audio_active, worker,
                 listener, main, gen, nspoken>>
  /\ UNCHANGED <<detector, audio_stream, speech_errors, model_stream, is_running, after_stop>>

\* process_command, lines 230-234: the generation thread is started.
process_command_start(h) ==
  /\ wake[h].pc = "L230"
  /\ \E s \in Sessions :
       /\ gen[s].pc = "idle"
       /\ \A k \in Sessions : k < s => gen[k].pc # "idle"
       /\ gen' = [gen EXCEPT ![s] = [GenInit EXCEPT !.pc = "L245",
                                                    !.command = wake[h].command,
                                                    !.streams = 1]]
  /\ wake' = [wake EXCEPT ![h].pc = "done"]
  /\ Disturb
  /\ UNCHANGED <<shared, worker, listener, main, nspoken>>
  /\ UNCHANGED <<detector, audio_stream, speech_errors, model_stream, is_running, after_stop>>

\* ----------------------------------------------------- generation threads

\* Where speak_sentence returns to: the loop over the stream (line 245) or,
\* after the stream's end, line 266.
AfterSentence(s) == IF gen[s].eos THEN "L269" ELSE "L245"

\* A loop over the stream that appends the chunk first and tests the signal
\* afterwards.
generate_chunk_test_late(s) ==
  /\ gen[s].pc = "L245"
  /\ gen[s].idx < MaxChunks
  /\ LET chunk  == StreamChunk(gen[s].idx + 1)
         buffer == gen[s].sentence_buffer \o chunk
     IN  gen' = [gen EXCEPT ![s] =
             IF interrupt_flag
             THEN [@ EXCEPT !.idx = @ + 1,
                            !.full_response = @ \o chunk,
                            !.sentence_buffer = buffer,
                            !.pc = "L275"]
             ELSE IF is_sentence_complete(buffer)
             THEN [@ EXCEPT !.idx = @ + 1,
                            !.full_response = @ \o chunk,
                            !.sentence = Strip(buffer),
                            !.sentence_buffer = <<>>,
                            !.pc = "L283"]
             ELSE [@ EXCEPT !.idx = @ + 1,
                            !.full_response = @ \o chunk,
                            !.sentence_buffer = buffer]]
  /\ UNCHANGED <<shared, worker, listener, main, wake, record>>
  /\ UNCHANGED <<detector, audio_stream, speech_errors, model_stream, is_running, after_stop>>

\* generate_buffered_response, lines 245-260: the stream yields a chunk; the
\* session returns if the signal is set, else the chunk is appended and a
\* complete sentence goes to speak_sentence.
generate_chunk(s) ==
  /\ gen[s].pc = "L245"
  /\ gen[s].idx < MaxChunks
  /\ LET chunk  == StreamChunk(gen[s].idx + 1)
         buffer == gen[s].sentence_buffer \o chunk
     IN  gen' = [gen EXCEPT ![s] =
             IF interrupt_flag
             THEN [@ EXCEPT !.idx = @ + 1, !.pc = "L275"]
             ELSE IF is_sentence_complete(buffer)
             THEN [@ EXCEPT !.idx = @ + 1,
                            !.full_response = @ \o chunk,
                            !.sentence = Strip(buffer),
                            !.sentence_buffer = <<>>,
                            !.pc = "L283"]
             ELSE [@ EXCEPT !.idx = @ + 1,
                            !.full_response = @ \o chunk,
                            !.sentence_buffer = buffer]]
  /\ UNCHANGED <<shared, worker, listener, main, wake, record>>
  /\ UNCHANGED <<detector, audio_stream, speech_errors, model_stream, is_running, after_stop>>

\* An end of stream that drops the text left in the buffer.
generate_end_drop(s) ==
  /\ gen[s].pc = "L245"
  /\ gen' = [gen EXCEPT ![s].eos = TRUE, ![s].pc = "L269"]
  /\ UNCHANGED <<shared, worker, listener, main, wake, record>>
  /\ UNCHANGED <<detector, audio_stream, speech_errors, model_stream, is_running, after_stop>>

\* generate_buffered_response, lines 262-266: the stream has ended; text left
\* in the buffer goes to speak_sentence.
generate_end(s) ==
  /\ gen[s].pc = "L245"
  /\ gen' = [gen EXCEPT ![s] =
       IF Strip(gen[s].sentence_buffer) # <<>>
       THEN [@ EXCEPT !.eos = TRUE, !.sentence = Strip(gen[s].sentence_buffer),
                      !.pc = "L283"]
       ELSE [@ EXCEPT !.eos = TRUE, !.pc = "L269"]]
  /\ UNCHANGED <<shared, worker, listener, main, wake, record>>
  /\ UNCHANGED <<detector, audio_stream, speech_errors, model_stream, is_running, after_stop>>

\* An except block that calls the stream again instead of giving up.
generate_raise_retry(s) ==
  /\ gen[s].pc = "L245"
  /\ gen' = [gen EXCEPT ![s].failed = TRUE, ![s].streams = @ + 1]
  /\ UNCHANGED <<shared, worker, listener, main, wake, record>>
  /\ UNCHANGED <<detector, audio_stream, speech_errors, model_stream, is_running, after_stop>>

\* generate_buffered_response, lines 271-273: the stream raises, and the
\* handler enters speak_immediately with the fallback phrase.
generate_raise(s) ==
  /\ gen[s].pc = "L245"
  /\ gen' = [gen EXCEPT ![s].failed = TRUE, ![s].pc = "L155"]
  /\ UNCHANGED <<shared, worker, listener, main, wake, record>>
  /\ UNCHANGED <<detector, audio_stream, speech_errors, model_stream, is_running, after_stop>>

\* speak_sentence, lines 283-289: nothing is queued when the signal is set or
\* the cleaned sentence is empty.
speak_sentence_test(s) ==
  /\ gen[s].pc = "L283"
  /\ gen' = [gen EXCEPT ![s] =
       IF gen[s].sentence = <<>> \/ interrupt_flag
          \/ clean_sentence(gen[s].sentence) = <<>>
       THEN [@ EXCEPT !.sentence = <<>>, !.pc = AfterSentence(s)]
       ELSE [@ EXCEPT !.sentence = clean_sentence(gen[s].sentence), !.pc = "L292"]]
  /\ UNCHANGED <<shared, worker, listener, main, wake, record>>
  /\ UNCHANGED <<detector, audio_stream, speech_errors, model_stream, is_running, after_stop>>

\* speak_sentence, line 292.
speak_sentence_put(s) ==
  /\ gen[s].pc = "L292"
  /\ speech_queue' = QueuePut(speech_queue, Unit(s, gen[s].nenq + 1, gen[s].sentence))
  /\ gen' = [gen EXCEPT ![s].nenq = @ + 1, ![s].sentence = <<>>,
                        ![s].pc = AfterSentence(s)]
  /\ UNCHANGED <<interrupt_flag, currently_speaking, processing_response,
                 response_lock, stop_event, memory, speaker, audio_active, worker,
                 listener, main, wake, record>>
  /\ UNCHANGED <<detector, audio_stream, speech_errors, model_stream, is_running, after_stop>>

\* generate_buffered_response, line 269: memory.save_context.
generate_save(s) ==
  /\ gen[s].pc = "L269"
  /\ memory' = Append(memory, [input |-> gen[s].command,
                               output |-> gen[s].full_response, sess |-> s])
  /\ gen' = [gen EXCEPT ![s].saved = TRUE, ![s].pc = "L275"]
  /\ UNCHANGED <<interrupt_flag, currently_speaking, processing_response,
                 response_lock, speech_queue, stop_event, speaker, audio_active,
                 worker, listener, main, wake, record>>
  /\ UNCHANGED <<detector, audio_stream, speech_errors, model_stream, is_running, after_stop>>

\* speak_immediately, line 155, called from the except block.
generate_speak_test(s) ==
  /\ gen[s].pc = "L155"
  /\ gen' = [gen EXCEPT ![s].pc = IF currently_speaking THEN "L157" ELSE "L162"]
  /\ UNCHANGED <<shared, worker, listener, main, wake, record>>
  /\ UNCHANGED <<detector, audio_stream, speech_errors, model_stream, is_running, after_stop>>

\* speak_immediately, lines 156-159.
generate_speak_stop(s) ==
  /\ gen[s].pc = "L157"
  /\ \E raised \in BOOLEAN : speaker' = IF raised THEN speaker ELSE StopSpeech
  /\ gen' = [gen EXCEPT ![s].pc = "L162"]
  /\ UNCHANGED <<interrupt_flag, currently_speaking, processing_response,
                 response_lock, speech_queue, stop_event, memory, audio_active,
                 worker, listener, main, wake, record>>
  /\ UNCHANGED <<detector, audio_stream, speech_errors, model_stream, is_running, after_stop>>

\* speak_immediately, line 162.
generate_speak_mark(s) ==
  /\ gen[s].pc = "L162"
  /\ currently_speaking' = TRUE
  /\ gen' = [gen EXCEPT ![s].pc = "L164"]
  /\ UNCHANGED <<interrupt_flag, processing_response, response_lock, speech_queue,
                 stop_event, memory, speaker, audio_active, worker, listener, main,
                 wake, record>>
  /\ UNCHANGED <<detector, audio_stream, speech_errors, model_stream, is_running, after_stop>>

\* speak_immediately, line 164: the engine starts on the fallback phrase.
generate_speak_speak(s) ==
  /\ gen[s].pc = "L164"
  /\ speaker' = BeginSpeak(GenId(s), Unit(0, 0, FallbackText))
  /\ gen' = [gen EXCEPT ![s].fallbacks = @ + 1, ![s].pc = "L164r"]
  /\ UNCHANGED <<interrupt_flag, currently_speaking, processing_response,
                 response_lock, speech_queue, stop_event, memory, audio_active,
                 worker, listener, main, wake, record>>
  /\ UNCHANGED <<detector, audio_stream, speech_errors, model_stream, is_running, after_stop>>

\* speak_immediately, lines 164-166.
generate_speak_return(s) ==
  /\ gen[s].pc = "L164r"
  /\ speaker' = EndSpeak(GenId(s))
  /\ gen' = [gen EXCEPT ![s].pc = "L168"]
  /\ UNCHANGED <<interrupt_flag, currently_speaking, processing_response,
                 response_lock, speech_queue, stop_event, memory, audio_active,
                 worker, listener, main, wake, record>>
  /\ UNCHANGED <<detector, audio_stream, speech_errors, model_stream, is_running, after_stop>>

\* speak_immediately, line 168, and on to the finally block.
generate_speak_finally(s) ==
  /\ gen[s].pc = "L168"
  /\ currently_speaking' = FALSE
  /\ gen' = [gen EXCEPT ![s].pc = "L275"]
  /\ UNCHANGED <<interrupt_flag, processing_response, response_lock, speech_queue,
                 stop_event, memory, speaker, audio_active, worker, listener, main,
                 wake, record>>
  /\ UNCHANGED <<detector, audio_stream, speech_errors, model_stream, is_running, after_stop>>

\* generate_buffered_response, lines 274-275: the finally block; the thread
\* ends.
generate_finally(s) ==
  /\ gen[s].pc = "L275"
  /\ processing_response' = FALSE
  /\ gen' = [gen EXCEPT ![s].pc = "done"]
  /\ UNCHANGED <<interrupt_flag, currently_speaking, response_lock, speech_queue,
                 stop_event, memory, speaker, audio_active, worker, listener, main,
                 wake, record>>
  /\ UNCHANGED <<detector, audio_stream, speech_errors, model_stream, is_running, after_stop>>

\* ------------------------------------------------------ detector calls

\* SentenceDetector.add_chunk, line 34; _process_buffer follows.
add_chunk ==
  /\ detector.pc = "ready"
  /\ Len(detector.chunks) < MaxFeeds
  /\ \E chunk \in ChunksFor(detector.min_length) :
       detector' = [detector EXCEPT !.buffer = @ \o chunk,
                                    !.chunks = Append(@, chunk),
                                    !.pc = "L39"]
  /\ UNCHANGED pipeline

\* SentenceDetector._process_buffer, lines 39-44: one turn of the loop.  The
\* queue keeps with each sentence how it was cut.
process_buffer ==
  /\ detector.pc = "L39"
  /\ LET r == extract_sentence(detector.buffer, detector.min_length,
                               detector.max_length)
     IN  detector' =
           IF detector.buffer = <<>> THEN [detector EXCEPT !.pc = "ready"]
           ELSE IF r.sentence # <<>>
           THEN [detector EXCEPT
                   !.buffer = r.buffer,
                   !.sentence_queue = Append(@, [text |-> r.sentence, how |-> r.how])]
           ELSE [detector EXCEPT !.buffer = r.buffer, !.pc = "ready"]
  /\ UNCHANGED pipeline

\* A flush that returns the remainder and leaves it in the buffer.
flush_keep_buffer ==
  /\ detector.pc = "ready"
  /\ detector' = IF Strip(detector.buffer) # <<>>
                 THEN [detector EXCEPT !.flushed = Strip(detector.buffer),
                                       !.pc = "flushed"]
                 ELSE [detector EXCEPT !.pc = "flushed"]
  /\ UNCHANGED pipeline

\* A flush that tests and returns the buffer as it is, whitespace included.
flush_unstripped ==
  /\ detector.pc = "ready"
  /\ detector' = IF detector.buffer # <<>>
                 THEN [detector EXCEPT !.flushed = detector.buffer,
                                       !.buffer = <<>>, !.pc = "flushed"]
                 ELSE [detector EXCEPT !.pc = "flushed"]
  /\ UNCHANGED pipeline

\* SentenceDetector.flush, lines 95-101.
flush ==
  /\ detector.pc = "ready"
  /\ detector' = IF Strip(detector.buffer) # <<>>
                 THEN [detector EXCEPT !.flushed = Strip(detector.buffer),
                                       !.buffer = <<>>, !.pc = "flushed"]
                 ELSE [detector EXCEPT !.pc = "flushed"]
  /\ UNCHANGED pipeline

\* SentenceDetector.flush, lines 95-101, called again right after a flush.
flush_again ==
  /\ detector.pc = "flushed"
  /\ detector' = IF Strip(detector.buffer) # <<>>
                 THEN [detector EXCEPT !.again = Strip(detector.buffer),
                                       !.buffer = <<>>, !.pc = "reflushed"]
                 ELSE [detector EXCEPT !.pc = "reflushed"]
  /\ UNCHANGED pipeline

\* ------------------------------------------------------------ specification

WorkerStep ==
  \/ speech_handler_loop
  \/ speech_handler_get
  \/ speech_handler_check
  \/ speak_interruptible_check
  \/ speak_interruptible_mark
  \/ speak_interruptible_speak
  \/ speak_interruptible_return
  \/ speak_interruptible_finally

MainStep ==
  \/ run_announce
  \/ run_loop
  \/ cleanup
  \/ wake_word_listener_start
  \/ wake_word_listener_stop

\* The steps of a wake handler, apart from the request to stop speech.
WakeStepRest(h) ==
  \/ wake_test_speaking(h)
  \/ clear_all_queues_test(h)
  \/ clear_all_queues_get(h)
  \/ wake_reset_speaking(h)
  \/ wake_reset_processing(h)
  \/ wake_clear_flag(h)
  \/ wake_speak_test(h)
  \/ wake_speak_stop(h)
  \/ wake_speak_mark(h)
  \/ wake_speak_speak(h)
  \/ wake_speak_return(h)
  \/ wake_speak_finally(h)
  \/ wake_listen(h)
  \/ process_command_stop(h)
  \/ process_command_lock(h)
  \/ process_command_mark(h)
  \/ process_command_clear(h)
  \/ process_command_start(h)

WakeStep(h) ==
  \/ wake_stop_speech(h)
  \/ WakeStepRest(h)

GenStep(s) ==
  \/ generate_chunk(s)
  \/ generate_end(s)
  \/ generate_raise(s)
  \/ speak_sentence_test(s)
  \/ speak_sentence_put(s)
  \/ generate_save(s)
  \/ generate_speak_test(s)
  \/ generate_speak_stop(s)
  \/ generate_speak_mark(s)
  \/ generate_speak_speak(s)
  \/ generate_speak_return(s)
  \/ generate_speak_finally(s)
  \/ generate_finally(s)

Next ==
  \/ WorkerStep
  \/ MainStep
  \/ wake_word_callback
  \/ \E h \in Handlers : WakeStep(h)
  \/ \E s \in Sessions : GenStep(s)

\* Wake words are detected at any time.
Spec == Init /\ [][Next]_vars

\* Idle of section 4.2: nothing queued, nothing in synthesis or held by the
\* worker, no generation session and no wake handler in flight.
PipelineIdle ==
  /\ speech_queue = <<>>
  /\ speaker = {}
  /\ worker.text = NoUnit
  /\ Running = {}
  /\ Live = {}

wake_word_callback_idle == PipelineIdle /\ wake_word_callback

NextQuiet ==
  \/ WorkerStep
  \/ MainStep
  \/ wake_word_callback_idle
  \/ \E h \in Handlers : WakeStepRest(h)
  \/ \E s \in Sessions : GenStep(s)

\* The wake word is detected only while the pipeline is Idle: no session is
\* ever interrupted.  (Nothing is then in synthesis when a handler tests
\* currently_speaking on line 114, so lines 115-122 never run.)
SpecQuiet == Init /\ [][NextQuiet]_vars

\* The constructor has been called and is about to initialise the audio:
\* no thread is started and there is no stream yet.
InitConstruct ==
  /\ interrupt_flag = FALSE
  /\ currently_speaking = FALSE
  /\ processing_response = FALSE
  /\ response_lock = 0
  /\ speech_queue = <<>>
  /\ stop_event = FALSE
  /\ memory = <<>>
  /\ speaker = {}
  /\ audio_active = FALSE
  /\ worker = [WorkerInit EXCEPT !.pc = "unstarted"]
  /\ listener = "unstarted"
  /\ main = "L32"
  /\ wake = [h \in Handlers |-> WakeInit]
  /\ gen = [s \in Sessions |-> GenInit]
  /\ disturbed = {}
  /\ nspoken = [s \in Sessions |-> 0]
  /\ audio_stream = FALSE
  /\ speech_errors = {}
  /\ is_running = FALSE
  /\ after_stop = [taken |-> {}, begun |-> {}]
  /\ model_stream = DefaultStream
  /\ detector = SentenceDetector(15, 200)

NextConstruct ==
  \/ setup_wake_word_detector
  \/ setup_wake_word_detector_raise
  \/ init_threads
  \/ NextQuiet

\* The constructor, which may fail in setup_wake_word_detector, and then the
\* pipeline with the wake word detected only while it is Idle.
SpecConstruct == InitConstruct /\ [][NextConstruct]_vars

\* The pipeline with any of the streams as the answer of the model.
InitStream ==
  /\ PipelineInit
  /\ model_stream \in Streams
  /\ detector = SentenceDetector(15, 200)

\* As SpecQuiet, over the streams with and without markup.
SpecStream == InitStream /\ [][NextQuiet]_vars

\* The assistant run from the dashboard or the command line: it is stopped
\* by an exit command, by stop_jarvis or by an exception in the run loop.
NextStop ==
  \/ NextQuiet
  \/ run_interrupt
  \/ stop_jarvis

SpecStop == Init /\ [][NextStop]_vars

NextEngine ==
  \/ NextQuiet
  \/ speak_interruptible_raise

\* As SpecQuiet, and the Speak calls of the worker that raise are recorded.
SpecEngine == Init /\ [][NextEngine]_vars

NextCapture ==
  \/ NextQuiet
  \/ \E h \in Handlers : wake_listen_raise(h)

\* As SpecQuiet, and the input device may fail to open when a command is to
\* be captured.
SpecCapture == Init /\ [][NextCapture]_vars

\* A session is in its stream loop and has enqueued a sentence.
MidGeneration ==
  /\ Live = {}
  /\ \E s \in Running : gen[s].nenq >= 1

wake_word_callback_mid == (PipelineIdle \/ MidGeneration) /\ wake_word_callback

NextCancel ==
  \/ WorkerStep
  \/ MainStep
  \/ wake_word_callback_mid
  \/ \E h \in Handlers : WakeStep(h)
  \/ \E s \in Sessions : GenStep(s)

\* The wake word is detected while the pipeline is Idle or while a session
\* that has enqueued a sentence is still generating.  Every thread that can
\* take a step eventually takes one: the scheduler starves no thread, listen
\* returns within its timeout, and the model stream yields, ends or raises.
\* Detections themselves are not forced.
SpecCancel ==
  /\ Init /\ [][NextCancel]_vars
  /\ WF_vars(WorkerStep)
  /\ WF_vars(MainStep)
  /\ \A h \in Handlers : WF_vars(WakeStep(h))
  /\ \A s \in Sessions : WF_vars(GenStep(s))

\* A detector of either configuration, about to be fed.
InitDetector ==
  /\ PipelineInit
  /\ model_stream = DefaultStream
  /\ \E c \in DetectorConfigs : detector = SentenceDetector(c.min_length, c.max_length)

NextDetector ==
  \/ add_chunk
  \/ process_buffer
  \/ flush
  \/ flush_again

\* One caller feeds a detector and flushes it, once or twice.
SpecDetector == InitDetector /\ [][NextDetector]_vars

\* ------------------------------------------------------------------ claims

\* Whether the worker holds a unit it has dequeued and not yet passed to Speak.
WorkerHolds == worker.pc \in {"L334", "L310", "L313", "L315"}

\* The sessions started before handler h set the signal.
Prior(h) == 1..wake[h].base

\* Whether some unit of a session in S is queued, held by the worker after
\* its get, or in synthesis.
UnitAbout(S) ==
  \/ \E i \in 1..Len(speech_queue) : speech_queue[i].sess \in S
  \/ WorkerHolds /\ worker.text.sess \in S
  \/ \E c \in speaker : c.unit.sess \in S

\* C1: once a wake handler has set interrupt_flag, the engine starts no unit
\* of a session that was started before the signal was set, whether the unit
\* was still queued or already dequeued by the worker.
C1_NoCancelledUnitSpoken ==
  [][\A c \in speaker' \ speaker : c.unit.sess \notin Cancelled]_vars

\* C2: a generation session that was running when a wake handler set
\* interrupt_flag puts no unit on the speech queue from then on, whenever its
\* next chunk arrives.
C2_CancelledSessionEnqueuesNothing ==
  [][\A s \in Sessions : gen[s].cancel_seen => gen'[s].nenq = gen[s].nenq]_vars

\* C3: at most one Speak call is in progress in the engine, over the worker,
\* the wake handlers' speak_immediately and the fallback of a failed session.
C3_OneSpeakAtATime == Cardinality(speaker) <= 1

\* The units of session s that are enqueued and not yet begun by the engine:
\* the one the worker holds, then those in the queue.
Pending(s) ==
  (IF WorkerHolds /\ worker.text.sess = s THEN <<worker.text>> ELSE <<>>)
    \o SelectSeq(speech_queue, LAMBDA u : u.sess = s)

\* C4: for a session no wake handler has acted on since it started, the units
\* it enqueued are, in enqueue order, those the worker has begun to speak
\* followed by those still pending: none reordered, duplicated or dropped.
C4_SpeakOrderIsEnqueueOrder ==
  \A s \in Sessions \ disturbed :
    /\ Len(Pending(s)) = gen[s].nenq - nspoken[s]
    /\ \A i \in 1..Len(Pending(s)) : Pending(s)[i].n = nspoken[s] + i

\* C4, its case: an undisturbed session has ended and both of its units have
\* been spoken.
C4_Witness ==
  \E s \in Sessions \ disturbed :
    gen[s].pc = "done" /\ gen[s].nenq = 2 /\ nspoken[s] = 2 /\ speaker = {}

\* C5: at most one wake handler is executing on_wake_word_detected.
C5_OneWakeHandler == Cardinality(Live) <= 1

\* Handlers that have returned from listen.
PastListen(h) == wake[h].pc \in {"done", "L220", "L224", "L225", "L226", "L230"}
                 \/ wake[h].say = "shutdown"
                 \/ wake[h].command # <<>>

\* C6: a wake handler started while the pipeline is Idle speaks the
\* acknowledgement once and calls listen once: never more, the
\* acknowledgement first, and both by the time it has ended.
C6_OneAckOneListen ==
  \A h \in Handlers :
    /\ wake[h].acks <= 1
    /\ wake[h].listens <= wake[h].acks
    /\ PastListen(h) => wake[h].acks = 1 /\ wake[h].listens = 1

\* C6, its case: a handler started on an Idle pipeline has ended after one
\* acknowledgement and one capture.
C6_Witness ==
  \E h \in Handlers :
    wake[h].pc = "done" /\ wake[h].acks = 1 /\ wake[h].listens = 1

\* C7: when a handler starts to synthesize the acknowledgement, no unit of a
\* session started before its trigger is queued, held by the worker or in
\* synthesis.
C7_NothingLeftAtAck ==
  [][\A h \in Handlers :
       (wake[h].pc = "L164" /\ wake[h].say = "ack" /\ wake'[h].pc = "L164r")
         => ~UnitAbout(Prior(h))']_vars

\* C8: when a handler clears interrupt_flag (line 133 or line 226), the
\* sessions started before its trigger have unwound: none of their units is
\* queued, held by the worker or in synthesis, and none of their threads
\* is running.
C8_ClearedOnlyWhenUnwound ==
  [][\A h \in Handlers :
       (wake[h].pc \in {"L133", "L226"} /\ wake'[h].pc # wake[h].pc)
         => (~UnitAbout(Prior(h)) /\ Running \cap Prior(h) = {})']_vars

\* C9: memory.save_context runs only in a session whose stream ended and
\* during which no wake handler set the signal.
C9_SavedOnlyUncancelled ==
  [][\A s \in Sessions :
       (gen[s].pc = "L269" /\ gen'[s].pc = "L275")
         => (gen[s].eos /\ ~gen[s].cancel_seen)]_vars

\* C10: a session whose stream raised goes on to its finally block, speaks
\* the fallback phrase once and not through the queue, calls the stream no
\* second time, saves nothing to memory, and leaves processing_response
\* false as it ends.
C10_StreamFailureHandled ==
  /\ [](\A s \in Sessions : gen[s].failed =>
          /\ gen[s].pc \in {"L155", "L157", "L162", "L164", "L164r", "L168",
                            "L275", "done"}
          /\ gen[s].fallbacks <= 1
          /\ gen[s].pc \in {"L164r", "L168", "L275", "done"} => gen[s].fallbacks = 1
          /\ gen[s].streams = 1
          /\ ~gen[s].saved
          /\ \A i \in 1..Len(memory) : memory[i].sess # s
          /\ \A i \in 1..Len(speech_queue) : speech_queue[i].text # FallbackText)
  /\ [][\A s \in Sessions :
          (gen[s].failed /\ gen[s].pc # "done" /\ gen'[s].pc = "done")
            => ~processing_response']_vars

\* C10, its case: a session whose stream raised after a chunk has ended, its
\* fallback spoken.
C10_Witness ==
  \E s \in Sessions :
    gen[s].failed /\ gen[s].pc = "done" /\ gen[s].idx >= 1 /\ gen[s].fallbacks = 1

\* Idle: the signal clear, nothing queued, nothing marked as speaking or
\* processing, no generation thread running.
Idle ==
  /\ ~interrupt_flag
  /\ speech_queue = <<>>
  /\ ~currently_speaking
  /\ ~processing_response
  /\ Running = {}

\* Handler h cancelled a session in mid-generation and has returned after a
\* capture that gave no text.
CancelledNoText(h) ==
  /\ wake[h].pc = "done" /\ wake[h].command = <<>> /\ wake[h].say = "ack"
  /\ \E s \in Prior(h) : gen[s].cancel_seen

\* C11: when a handler has cancelled a session in mid-generation, after the
\* session had enqueued a sentence, and its capture returned no text, then
\* once every thread has come to rest (no handler or generation thread
\* running, nothing queued or in synthesis, the worker polling its queue) with
\* no later detection the pipeline is Idle; and once a detection has set the signal while a session was
\* generating, the engine starts no unit of that session.
C11_CancelEndsIdleAndSilent ==
  /\ [](\A h \in Handlers :
          (/\ PipelineIdle
           /\ worker.pc \in {"L328", "L331"}
           /\ CancelledNoText(h)
           /\ \A k \in Handlers : k > h => wake[k].pc = "idle") => Idle)
  /\ [][\A c \in speaker' \ speaker :
          c.unit.sess \in Sessions => ~gen[c.unit.sess].cancel_seen]_vars

\* C12: with the audio stream active, the callback can take the next frame
\* whatever the wake handlers, the worker, the generation threads and the
\* holder of response_lock are doing; a detection starts the handler on a
\* thread of its own, at its first statement, moves no other thread, and
\* leaves the stream delivering frames.
C12_CallbackNeverWaits ==
  /\ []((audio_active /\ \E h \in Handlers : wake[h].pc = "idle")
          => ENABLED wake_word_callback)
  /\ [][\A h \in Handlers :
          (wake[h].pc = "idle" /\ wake'[h].pc # "idle") =>
            /\ wake'[h].pc = "L114"
            /\ audio_active'
            /\ \A k \in Handlers \ {h} : wake'[k] = wake[k]
            /\ \A s \in Sessions : gen'[s].pc = gen[s].pc
            /\ worker' = worker /\ main' = main /\ listener' = listener
            /\ response_lock' = response_lock]_vars

\* C12, its case: a handler has just been started while another handler holds
\* response_lock and the worker is inside Speak.
C12_Witness ==
  \E h \in Handlers :
    /\ wake[h].pc = "L114"
    /\ response_lock \in Handlers \ {h}
    /\ worker.pc = "L315r"

\* C13: a step of clear_all_queues passes nothing to the engine, and the
\* worker never starts to speak a unit that it dequeued while a
\* clear_all_queues was in progress.
C13_ClearAtomicForWorker ==
  /\ [][\A h \in Clearing : wake'[h] # wake[h] => speaker' = speaker]_vars
  /\ [][(worker.pc = "L315" /\ worker'.pc = "L315r") => ~worker.during_clear]_vars

\* C14: interrupt_flag is clear at the step in which the worker calls Speak
\* on a dequeued unit, and no step of the worker puts a unit on the queue.
C14_SignalClearAtSpeak ==
  /\ [][(worker.pc = "L315" /\ worker'.pc = "L315r") => ~interrupt_flag]_vars
  /\ [][worker' # worker => Len(speech_queue') <= Len(speech_queue)]_vars

\* Some thread is between setting currently_speaking and resetting it.
InSpeak ==
  \/ worker.pc \in {"L315", "L315r", "L319"}
  \/ \E h \in Handlers : wake[h].pc \in {"L164", "L164r", "L168"}
  \/ \E s \in Sessions : gen[s].pc \in {"L164", "L164r", "L168"}

\* C15: currently_speaking is true while a Speak call is executing, and false
\* when no thread is between setting and resetting it.
C15_SpeakingMarksSynthesis ==
  /\ speaker # {} => currently_speaking
  /\ ~InSpeak => ~currently_speaking

\* The sentences a detector has given out: those queued by add_chunk, then
\* the result of flush.
Outputs ==
  [i \in 1..Len(detector.sentence_queue) |-> detector.sentence_queue[i].text]
    \o (IF detector.flushed = <<>> THEN <<>> ELSE <<detector.flushed>>)

\* The chunks one after the other.
RECURSIVE Concat(_)
Concat(chunks) == IF chunks = <<>> THEN <<>> ELSE Head(chunks) \o Concat(Tail(chunks))

\* C16: once flush has returned, the sentences given out, joined with single
\* spaces, hold the characters of the chunks that are not whitespace, none
\* lost, duplicated or reordered, and every two words that whitespace
\* separated in the chunks are still separated.  Cuts(text) is the places
\* where text is divided into words: for each word but the last, the number
\* of characters that are not whitespace up to its end.
C16_FlushReconstructsText ==
  LET Cuts(text) ==
        LET words == Split(text)
        IN  {Len(Concat(SubSeq(words, 1, k))) : k \in 1..(Len(words) - 1)}
  IN  detector.pc = "flushed" =>
        /\ Concat(Split(Join(Outputs))) = Concat(Split(Concat(detector.chunks)))
        /\ Cuts(Concat(detector.chunks)) \subseteq Cuts(Join(Outputs))

\* C17: a sentence cut at a natural terminator has at least min_length
\* characters before its first terminator.
C17_NaturalSplitRespectsMinLength ==
  \A i \in 1..Len(detector.sentence_queue) :
    detector.sentence_queue[i].how = "natural" =>
      /\ sentence_endings_search(detector.sentence_queue[i].text).found
      /\ sentence_endings_search(detector.sentence_queue[i].text).start
           >= detector.min_length

\* C17, its case: a sentence was cut at a terminator that has exactly
\* min_length characters before it, and the detector has been flushed.
C17_Witness ==
  /\ detector.pc = "flushed"
  /\ \E i \in 1..Len(detector.sentence_queue) :
       /\ detector.sentence_queue[i].how = "natural"
       /\ sentence_endings_search(detector.sentence_queue[i].text).start
            = detector.min_length

\* C18: every turn of the loop of _process_buffer that does not end the loop
\* queues a non-empty sentence and leaves a strictly shorter buffer, so the
\* loop ends within as many turns as the buffer has characters; and a turn
\* that forces a break acts on text longer than max_length and shortens the
\* buffer by at least one word.
C18_ProcessBufferTerminates ==
  [][(detector.pc = "L39" /\ detector'.pc = "L39") =>
       LET Emitted == detector'.sentence_queue[Len(detector'.sentence_queue)]
       IN  /\ Len(detector'.sentence_queue) = Len(detector.sentence_queue) + 1
           /\ Emitted.text # <<>>
           /\ Len(detector'.buffer) < Len(detector.buffer)
           /\ Emitted.how \in {"pattern", "words"} =>
                /\ Len(Strip(detector.buffer)) > detector.max_length
                /\ Len(Split(detector'.buffer)) < Len(Split(detector.buffer))]_vars

\* C18, its case: text without punctuation was broken at a word boundary and
\* the loop has ended.
C18_Witness ==
  /\ detector.pc = "ready"
  /\ \E i \in 1..Len(detector.sentence_queue) : detector.sentence_queue[i].how = "words"
  /\ \E i \in 1..Len(detector.sentence_queue) : detector.sentence_queue[i].how = "pattern"

\* C19, as amended: with min_length 15, once the three chunks "The weather ",
\* "today is sunny. ", "It will rain tomorrow." were fed in that order and
\* add_chunk has returned, add_chunk has queued both sentences, "The weather
\* today is sunny." and then "It will rain tomorrow.", the buffer is empty,
\* and a flush that follows returns nothing.
C19_WeatherBothFromAddChunk ==
  (/\ detector.min_length = 15
   /\ detector.chunks = WeatherChunks
   /\ detector.pc \in {"ready", "flushed"}) =>
    /\ Outputs = << WeatherChunks[1] \o SubSeq(WeatherChunks[2], 1, 15),
                    WeatherChunks[3] >>
    /\ Len(detector.sentence_queue) = 2
    /\ detector.buffer = <<>>
    /\ detector.flushed = <<>>

\* C19, its case: the three chunks were fed and flush has returned.
C19_Witness ==
  /\ detector.min_length = 15
  /\ detector.chunks = WeatherChunks
  /\ detector.pc = "flushed"

\* C19, as stated: after the three chunks and flush, add_chunk has given
\* "The weather today is sunny." alone and "It will rain tomorrow." is the
\* result of flush.
C19_WeatherSecondFromFlush ==
  (/\ detector.min_length = 15
   /\ detector.chunks = WeatherChunks
   /\ detector.pc = "flushed") =>
    /\ Len(detector.sentence_queue) = 1
    /\ detector.sentence_queue[1].text
         = WeatherChunks[1] \o SubSeq(WeatherChunks[2], 1, 15)
    /\ detector.flushed = WeatherChunks[3]

\* C20: once flush has returned, a single chunk that was longer than
\* max_length (stripped) and had no sentence terminator has been
\* broken by add_chunk at or after offset min_length: add_chunk queues one
\* piece of at least min_length characters, flush returns the rest, both are
\* non-empty, and together they hold the characters of the chunk that are not
\* whitespace, in order.
C20_LongChunkSplitInTwo ==
  (/\ detector.pc = "flushed"
   /\ Len(detector.chunks) = 1
   /\ Len(Strip(detector.chunks[1])) > detector.max_length
   /\ ~sentence_endings_search(detector.chunks[1]).found) =>
    /\ Len(detector.sentence_queue) = 1
    /\ detector.sentence_queue[1].how \in {"pattern", "words"}
    /\ Len(detector.sentence_queue[1].text) >= detector.min_length
    /\ detector.flushed # <<>>
    /\ Concat(Split(Join(Outputs))) = Concat(Split(detector.chunks[1]))

\* C21: a step of the generation loop that receives a chunk while the signal
\* is set goes to the finally block and changes neither the sentence buffer,
\* the response text, the number of units the session has enqueued, the
\* speech queue nor the memory; the next step of the session ends the thread
\* with the same effect; and the memory holds no entry of a session that
\* ended this way.
C21_CancelledChunkChangesNothing ==
  /\ [][\A s \in Sessions :
          (gen[s].pc = "L245" /\ interrupt_flag /\ gen'[s].idx = gen[s].idx + 1)
            => /\ gen'[s] = [gen[s] EXCEPT !.idx = @ + 1, !.pc = "L275"]
               /\ speech_queue' = speech_queue
               /\ memory' = memory]_vars
  /\ [][\A s \in Sessions :
          (/\ gen[s].pc = "L275" /\ ~gen[s].saved /\ ~gen[s].failed
           /\ gen'[s].pc # "L275")
            => /\ gen'[s] = [gen[s] EXCEPT !.pc = "done"]
               /\ speech_queue' = speech_queue
               /\ memory' = memory]_vars
  /\ [](\A s \in Sessions :
          (gen[s].pc \in {"L275", "done"} /\ ~gen[s].saved /\ ~gen[s].failed)
            => \A i \in 1..Len(memory) : memory[i].sess # s)

\* C21, its case: a session that had enqueued a sentence received its next
\* chunk with the signal set and has ended.
C21_Witness ==
  \E s \in Sessions :
    /\ gen[s].pc = "done" /\ ~gen[s].saved /\ ~gen[s].failed
    /\ gen[s].nenq >= 1
    /\ gen[s].idx = MaxChunks

\* C22: no call of listen ends in an exception; and a step in which listen
\* returns empty text ends the handler, starts no generation session, puts no
\* unit on the speech queue and leaves processing_response and the memory as
\* they were.
C22_CaptureNeverRaises ==
  /\ [](\A h \in Handlers : ~wake[h].raised)
  /\ [][\A h \in Handlers :
          (wake[h].pc = "L137" /\ wake'[h].pc = "done" /\ ~wake'[h].raised)
            => /\ wake'[h].command = <<>>
               /\ gen' = gen
               /\ speech_queue' = speech_queue
               /\ processing_response' = processing_response
               /\ memory' = memory]_vars

\* C23: when setup_wake_word_detector fails the constructor ends with the
\* exception, and from then on nothing runs: the worker and the listener
\* thread are not started, the stream delivers no frame, no wake handler has
\* run and no step is ever taken; and the two threads are only ever started
\* for an object whose classifier and stream exist.
C23_FailedSetupStartsNothing ==
  /\ [](main = "raised" =>
          /\ ~audio_stream
          /\ worker.pc = "unstarted"
          /\ listener = "unstarted"
          /\ ~audio_active
          /\ \A h \in Handlers : wake[h].pc = "idle"
          /\ \A s \in Sessions : gen[s].pc = "idle")
  /\ []((worker.pc # "unstarted" \/ listener # "unstarted" \/ audio_active)
          => audio_stream)
  /\ [][main # "raised"]_vars

\* C23, its case: setup_wake_word_detector has failed.
C23_Witness == main = "raised" /\ ~audio_stream

\* C24, as amended: response_lock is held only by a wake handler that is
\* inside the with block of process_command (lines 225-227: two assignments
\* and clear_all_queues); the thread that holds it has no Speak call in
\* progress and is not reading the model stream.
C24_NoLockAcrossSpeakOrStream ==
  /\ response_lock \in {0} \cup Handlers
  /\ \A h \in Handlers :
       response_lock = h =>
         /\ wake[h].pc \in {"L225", "L226", "L143", "L145"}
         /\ \A c \in speaker : c.by # WakeId(h)

\* C24, its case: response_lock is held, by a handler inside
\* clear_all_queues, while another thread is inside Speak.
C24_Witness ==
  /\ response_lock # 0
  /\ wake[response_lock].pc = "L143"
  /\ speaker # {}

\* C24, as stated: in no state is response_lock held while any thread is
\* inside Speak or reading the model stream.
C24_NoLockDuringAnySpeakOrStream ==
  response_lock # 0 =>
    /\ speaker = {}
    /\ \A s \in Sessions : gen[s].pc # "L245"

\* C25: the worker's transition of currently_speaking to true (line 313)
\* forms one atomic step with its test of interrupt_flag (line 310), or is
\* made under response_lock: the worker marks itself speaking only in a state
\* in which cancellation is not requested, so that "speaking" and
\* "cancellation requested" are never combined from two different states.
C25_SpeakingAndCancelNotTorn ==
  [][(worker.pc = "L313" /\ currently_speaking' /\ worker'.pc = "L315")
       => ~interrupt_flag]_vars

\* The stage of on_wake_word_detected a handler is in: 1 signal set (line
\* 111), 2 engine asked to stop (116-122), 3 queue cleared (125), 4 flags
\* reset and settle interval (126-130), 5 signal about to be cleared (133),
\* 6 acknowledgement through speak_immediately (134), 7 capture (137), 8 the
\* command.  locked: whether the handler holds response_lock.
Stage(w, locked) ==
  CASE w.pc = "idle" -> 0
    [] w.pc = "L114" -> 1
    [] w.pc = "L117" -> 2
    [] w.pc \in {"L143", "L145"} -> IF locked THEN 8 ELSE 3
    [] w.pc \in {"L126", "L127"} -> 4
    [] w.pc = "L133" -> 5
    [] w.pc \in {"L155", "L157", "L162", "L164", "L164r", "L168"} ->
         IF w.say = "ack" THEN 6 ELSE 8
    [] w.pc = "L137" -> 7
    [] OTHER -> 8

\* C26: a wake handler goes through its stages in their order and never
\* back, stage 2 alone being skipped when nothing is being spoken.  The step
\* that starts the handler sets the signal; the queue is empty when stage 3
\* ends; the signal is set all through stages 1 to 4, so during every step of
\* clear_all_queues of line 125, and it is clear when the acknowledgement
\* is passed to the engine, which is done once, not through the queue, and
\* before listen is called.
C26_WakeSequenceInOrder ==
  /\ [][\A h \in Handlers :
          LET Before == Stage(wake[h], response_lock = h)
              After  == Stage(wake'[h], response_lock' = h)
          IN  /\ After >= Before
              /\ After > Before => (After = Before + 1 \/ (Before = 1 /\ After = 3))
              /\ (Before = 0 /\ After = 1) => interrupt_flag'
              /\ (Before = 3 /\ After = 4) => speech_queue = <<>>
              /\ (Before = 5 /\ After = 6) => ~interrupt_flag'
              /\ (wake[h].pc = "L164" /\ wake'[h].pc = "L164r" /\ Before = 6) =>
                    /\ ~interrupt_flag
                    /\ wake[h].acks = 0 /\ wake[h].listens = 0
                    /\ speech_queue' = speech_queue
                    /\ \E c \in speaker' : c.by = WakeId(h) /\ c.unit.text = AckText
              /\ (Before = 7 /\ After = 8) => wake[h].acks = 1]_vars
  /\ [](\A h \in Handlers :
          Stage(wake[h], response_lock = h) \in 1..4 => interrupt_flag)

\* C26, its case: a handler that interrupted a running response session has
\* gone through every stage, spoken its acknowledgement once and captured a
\* command.
C26_Witness ==
  \E h \in Handlers :
    /\ wake[h].pc = "L224"
    /\ wake[h].acks = 1 /\ wake[h].listens = 1
    /\ wake[h].command # <<>>
    /\ \E s \in Sessions : gen[s].cancel_seen

\* C27: a turn of the loop of _process_buffer on a trimmed buffer that holds a
\* terminator with at least min_length characters before it queues a sentence
\* that ends at the first such terminator (with the terminators that follow
\* it directly), also when an earlier terminator lies inside the first
\* min_length characters.
C27_LaterTerminatorUsed ==
  [][LET text == Strip(detector.buffer)
         T    == {i \in 1..Len(text) :
                    text[i] \in Terminators /\ i - 1 >= detector.min_length}
         last == Len(detector'.sentence_queue)
     IN  (detector.pc = "L39" /\ T # {}) =>
           /\ last = Len(detector.sentence_queue) + 1
           /\ detector'.sentence_queue[last].text
                = Upto(text, Least(T) - 1 + RunLen(text, Terminators, Least(T)))]_vars

\* C28: a turn of the loop of _process_buffer that takes a forced break at a
\* secondary break pattern splits the text at the earliest match of any of
\* the four kinds in the text from offset min_length on: no match of another
\* kind ends before the split point.
C28_ForcedBreakAtEarliestPattern ==
  [][LET text == Strip(detector.buffer)
         rest == From(text, detector.min_length)
         ends == { MatchPunctuation(rest), MatchWord(rest, Conjunctions),
                   MatchWord(rest, Dashes), MatchParenthesis(rest) } \ {0}
         last == Len(detector'.sentence_queue)
     IN  (/\ detector.pc = "L39"
          /\ last = Len(detector.sentence_queue) + 1
          /\ detector'.sentence_queue[last].how = "pattern") =>
           /\ ends # {}
           /\ detector'.sentence_queue[last].text
                = Strip(Upto(text, Least(ends) + detector.min_length))
           /\ detector'.buffer = From(text, Least(ends) + detector.min_length)]_vars

\* C29: a turn of the loop of _process_buffer on trimmed text that is longer
\* than max_length, has no accepted terminator, holds no secondary break
\* pattern and has two words or more queues the first half of its words; and
\* when add_chunk has returned, buffered text without a terminator and
\* without a secondary break pattern is no longer than max_length unless it
\* is a single word.
C29_MidpointSplitWheneverWordBoundary ==
  /\ [][LET text == Strip(detector.buffer)
             last == Len(detector'.sentence_queue)
         IN  (/\ detector.pc = "L39"
              /\ Len(text) > detector.max_length
              /\ ~AcceptMatch(sentence_endings_search(text), detector.min_length)
              /\ MatchPunctuation(text) = 0 /\ MatchWord(text, Conjunctions) = 0
              /\ MatchWord(text, Dashes) = 0 /\ MatchParenthesis(text) = 0
              /\ Len(Split(text)) >= 2) =>
               /\ last = Len(detector.sentence_queue) + 1
               /\ detector'.sentence_queue[last]
                    = [text |-> Join(SubSeq(Split(text), 1, Len(Split(text)) \div 2)),
                       how |-> "words"]]_vars
  /\ [](LET text == Strip(detector.buffer)
         IN  (/\ detector.pc = "ready"
              /\ ~sentence_endings_search(text).found
              /\ MatchPunctuation(text) = 0 /\ MatchWord(text, Conjunctions) = 0
              /\ MatchWord(text, Dashes) = 0 /\ MatchParenthesis(text) = 0) =>
               (Len(text) <= detector.max_length \/ Len(Split(text)) <= 1))

\* C30: add_chunk with an empty or whitespace-only chunk queues no sentence,
\* whatever the earlier chunks left in the buffer: the chunk is appended, the
\* one turn of the loop of _process_buffer that follows ends the loop with
\* the queue and the buffer as they were; and flush on a buffer that holds
\* nothing but whitespace returns nothing and queues nothing.
C30_BlankChunkEmitsNothing ==
  [][LET n == Len(detector.chunks)
     IN  /\ (detector.pc = "ready" /\ detector'.pc = "L39") =>
               detector'.sentence_queue = detector.sentence_queue
         /\ (detector.pc = "L39" /\ Strip(detector.chunks[n]) = <<>>) =>
               /\ detector'.pc = "ready"
               /\ detector'.sentence_queue = detector.sentence_queue
               /\ detector'.buffer = detector.buffer
         /\ (detector.pc = "ready" /\ detector'.pc = "flushed"
                /\ Strip(detector.buffer) = <<>>) =>
               /\ detector'.flushed = <<>>
               /\ detector'.sentence_queue = detector.sentence_queue]_vars

\* C30, its case: a whitespace-only chunk was fed after a chunk that left text
\* in the buffer and after a sentence was queued, add_chunk has returned, and
\* the buffer still holds text.
C30_Witness ==
  /\ detector.pc = "ready"
  /\ Len(detector.chunks) >= 2
  /\ detector.chunks[Len(detector.chunks)] = <<" ">>
  /\ detector.sentence_queue # <<>>
  /\ Strip(detector.buffer) # <<>>

\* C31: flush returns the trimmed buffer, which is one sentence when the
\* buffer holds text that is not whitespace and nothing otherwise, and then
\* leaves the buffer empty; a flush repeated at once returns nothing; and
\* neither call changes the sentences that add_chunk has queued.
C31_FlushDrainsOnce ==
  [][/\ (detector.pc = "ready" /\ detector'.pc = "flushed") =>
          /\ detector'.flushed = Strip(detector.buffer)
          /\ Strip(detector.buffer) # <<>> => detector'.buffer = <<>>
          /\ detector'.sentence_queue = detector.sentence_queue
     /\ (detector.pc = "flushed" /\ detector'.pc = "reflushed") =>
          /\ detector'.again = <<>>
          /\ detector'.buffer = detector.buffer
          /\ detector'.sentence_queue = detector.sentence_queue]_vars

\* C31, its case: add_chunk has queued a sentence, flush has returned the
\* remainder, and flush was called again.
C31_Witness ==
  /\ detector.pc = "reflushed"
  /\ detector.sentence_queue # <<>>
  /\ detector.flushed # <<>>
  /\ detector.buffer = <<>>

\* C32: when the engine raises in a Speak call of the worker, the worker goes
\* to the finally clause with the speech queue and stop_event as they were
\* and no call of its own left in the engine; its next step sets
\* currently_speaking to false and takes it back to the loop test; the loop
\* ends only when stop_event is set; and the worker begins the units of a
\* session that no wake handler acted on one after the other in enqueue
\* order, whether or not earlier ones raised.
C32_EngineFailureCaught ==
  /\ [][
       /\ (speech_errors' # speech_errors) =>
            /\ worker.pc = "L315r" /\ worker'.pc = "L319"
            /\ speech_queue' = speech_queue
            /\ stop_event' = stop_event
            /\ \A c \in speaker' : c.by # WorkerId
       /\ (worker.pc = "L319" /\ worker' # worker) =>
            /\ worker' = WorkerInit
            /\ ~currently_speaking'
       /\ (/\ worker.pc = "L315" /\ worker'.pc = "L315r"
           /\ worker.text.sess \in Sessions \ disturbed) =>
            worker.text.n = nspoken[worker.text.sess] + 1
     ]_vars
  /\ [](worker.pc = "done" => stop_event)

\* C32, its case: the engine raised on the first unit of a session, and the
\* worker has since begun and finished the second unit, is back at its loop
\* and currently_speaking is false.
C32_Witness ==
  \E s \in Sessions \ disturbed :
    /\ \E u \in speech_errors : u.sess = s /\ u.n = 1
    /\ nspoken[s] = 2
    /\ worker.pc = "L328"
    /\ ~currently_speaking

\* The positions of a thread inside speak_immediately.
InSpeakImmediately == {"L155", "L157", "L162", "L164", "L164r", "L168"}

\* C33: a step of speak_immediately, called by a wake handler or by a session
\* for its fallback, leaves the speech queue and interrupt_flag as they are;
\* and a call entered while the engine has a unit in synthesis goes through
\* the request to stop (lines 156-159) before it speaks.
C33_SpeakImmediatelyStopsFirst ==
  [][
     /\ \A h \in Handlers :
          (wake[h].pc \in InSpeakImmediately /\ wake'[h].pc # wake[h].pc) =>
            /\ speech_queue' = speech_queue
            /\ interrupt_flag' = interrupt_flag
            /\ (wake[h].pc = "L155" /\ speaker # {}) => wake'[h].pc = "L157"
     /\ \A s \in Sessions :
          (gen[s].pc \in InSpeakImmediately /\ gen'[s].pc # gen[s].pc) =>
            /\ speech_queue' = speech_queue
            /\ interrupt_flag' = interrupt_flag
            /\ (gen[s].pc = "L155" /\ speaker # {}) => gen'[s].pc = "L157"
    ]_vars

\* generate_buffered_response, lines 253-266, on a whole stream: the pieces of
\* text handed to speak_sentence, before they are stripped.  A piece ends with
\* the chunk that completes a sentence; the last one is what is left when the
\* stream ends.
RECURSIVE Segments(_, _)
Segments(chunks, sentence_buffer) ==
  IF chunks = <<>>
  THEN IF Strip(sentence_buffer) # <<>> THEN <<sentence_buffer>> ELSE <<>>
  ELSE LET buffer == sentence_buffer \o Head(chunks)
       IN  IF is_sentence_complete(buffer)
           THEN <<buffer>> \o Segments(Tail(chunks), <<>>)
           ELSE Segments(Tail(chunks), buffer)

\* The units of session s that are in the queue, held by the worker or in
\* synthesis.
UnitsOf(s) ==
  {speech_queue[i] : i \in {j \in 1..Len(speech_queue) : speech_queue[j].sess = s}}
    \cup (IF worker.text.sess = s THEN {worker.text} ELSE {})
    \cup {c.unit : c \in {d \in speaker : d.unit.sess = s}}

\* C34, as amended: in a session that has saved its turn (its stream ended
\* with no interruption and no failure), the chunks received are cut, in
\* stream order, into pieces that each end with the chunk that completes a
\* sentence, the text after the last such chunk being the last piece when it
\* is not blank; the pieces together are the full response, which is the
\* concatenation of all chunks and the text saved to memory; and the units
\* enqueued are, in this order, the cleanup of each piece taken by itself,
\* but for pieces whose cleanup is empty.
C34_UnitsAreCleanedPieces ==
  \A s \in Sessions :
    gen[s].saved =>
      LET chunks == [i \in 1..gen[s].idx |-> StreamChunk(i)]
          pieces == Segments(chunks, <<>>)
          texts  == [i \in 1..Len(pieces) |-> clean_sentence(Strip(pieces[i]))]
          units  == SelectSeq(texts, LAMBDA t : t # <<>>)
      IN  /\ Len(Concat(pieces)) <= Len(Concat(chunks))
          /\ Concat(pieces) = Upto(Concat(chunks), Len(Concat(pieces)))
          /\ Strip(From(Concat(chunks), Len(Concat(pieces)))) = <<>>
          /\ gen[s].full_response = Concat(chunks)
          /\ \E i \in 1..Len(memory) :
               memory[i].sess = s /\ memory[i].output = Concat(chunks)
          /\ gen[s].nenq = Len(units)
          /\ \A u \in UnitsOf(s) : u.n \in 1..Len(units) /\ u.text = units[u.n]

\* C34, its case: a session whose stream opened a code span in one chunk and
\* closed it in the next has enqueued two units, both still in the queue, and
\* has saved its turn.
C34_Witness ==
  \E s \in Sessions :
    /\ gen[s].saved /\ gen[s].nenq = 2
    /\ model_stream = <<CodeOpenChunk, CodeCloseChunk>>
    /\ Len(Pending(s)) = 2

\* C34, as stated: in a session that has saved its turn and whose units are
\* all still waiting, the texts of the units, one after the other, are the
\* cleanup of the full response (white space apart).
C34_UnitsJoinToCleanedResponse ==
  \A s \in Sessions :
    (gen[s].saved /\ Len(Pending(s)) = gen[s].nenq) =>
      Concat(Split(Concat([i \in 1..Len(Pending(s)) |-> Pending(s)[i].text])))
        = Concat(Split(clean_sentence(gen[s].full_response)))

\* The sessions whose thread is in the loop over the model stream or inside
\* speak_sentence.
Streaming == {s \in Sessions : gen[s].pc \in {"L245", "L283", "L292"}}

\* C35: at most one session is reading the model stream or enqueuing units.
C35_OneSessionStreaming == Cardinality(Streaming) <= 1

\* The wake handlers in process_command between line 225 and the start of
\* the thread at line 230.
Starting ==
  {h \in Handlers : \/ wake[h].pc \in {"L226", "L230"}
                    \/ wake[h].pc \in {"L143", "L145"} /\ response_lock = h}

\* C36: processing_response is true while the session started last is
\* running and no wake word was detected since it started, whatever older
\* sessions and wake handlers do; and it is true only while a session is
\* running or process_command is about to start one.
C36_ProcessingMarksGeneration ==
  /\ \A s \in Running :
       (~gen[s].cancel_seen /\ \A k \in Spawned : k <= s) => processing_response
  /\ processing_response => (Running # {} \/ Starting # {})

\* C37: a wake handler whose captured command holds an exit word is in
\* speak_immediately with the shutdown phrase, at line 220 or finished, and
\* holds no command to start a session with; each of its steps leaves
\* processing_response, interrupt_flag, the speech queue, memory and the
\* generation threads as they are; the phrase it hands to the engine is the
\* shutdown phrase; and stop_event is set by its step of line 220, which
\* follows the return of speak_immediately, and by no other step of it.
C37_ExitCommandOnlyStops ==
  /\ [][
       \A h \in Handlers :
         (wake[h].say = "shutdown" /\ wake'[h].pc # wake[h].pc) =>
           /\ processing_response' = processing_response
           /\ interrupt_flag' = interrupt_flag
           /\ speech_queue' = speech_queue
           /\ memory' = memory
           /\ gen' = gen
           /\ wake[h].pc = "L164" =>
                \E c \in speaker' : c.by = WakeId(h) /\ c.unit.text = ShutdownText
           /\ wake[h].pc = "L168" => wake'[h].pc = "L220"
           /\ stop_event' = IF wake[h].pc = "L220" THEN TRUE ELSE stop_event
     ]_vars
  /\ [](\A h \in Handlers :
          wake[h].say = "shutdown" =>
            /\ wake[h].pc \in InSpeakImmediately \cup {"L220", "done"}
            /\ wake[h].command = <<>>
            /\ wake[h].pc = "done" => stop_event)

\* C37, its case: a handler captured an exit command, has spoken the shutdown
\* phrase and has returned from process_command.
C37_Witness ==
  \E h \in Handlers :
    /\ wake[h].say = "shutdown" /\ wake[h].pc = "done"
    /\ wake[h].listens = 1
    /\ stop_event

\* C38 (as amended): stop_event, once set, is never cleared.  From then on
\* every step of the speech worker, of the wake listener and of run() brings
\* that thread strictly closer to its end (the position after its loop), a
\* thread that has ended stays ended, and a thread ends only with stop_event
\* set.  With stop_event set the worker begins to synthesize at most one
\* unit: the one it held, or the one that the speech_queue.get of the loop
\* iteration already under way returns.
C38_StopEventEndsTheLoops ==
  /\ [][
       LET WorkerRank(p) ==
             CASE p = "done" -> 0 [] p = "L328" -> 1 [] p = "L319" -> 2
               [] p = "L315r" -> 3 [] p = "L315" -> 4 [] p = "L313" -> 5
               [] p = "L310" -> 6 [] p = "L334" -> 7 [] p = "L331" -> 8
           ListenerRank(p) ==
             CASE p = "done" -> 0 [] p = "L348" -> 1 [] p = "L345" -> 2
           MainRank(p) ==
             CASE p = "done" -> 0 [] p = "L379" -> 1 [] p = "L362" -> 2
               [] p = "L359" -> 3
       IN
       /\ stop_event => stop_event'
       /\ (stop_event /\ worker' # worker)
            => WorkerRank(worker'.pc) < WorkerRank(worker.pc)
       /\ (stop_event /\ listener' # listener)
            => ListenerRank(listener') < ListenerRank(listener)
       /\ (stop_event /\ main' # main) => MainRank(main') < MainRank(main)
       /\ (stop_event /\ after_stop'.taken # after_stop.taken)
            => worker.pc = "L331" /\ after_stop.taken = {} /\ after_stop.begun = {}
     ]_vars
  /\ [](/\ Cardinality(after_stop.begun) <= 1
        /\ Cardinality(after_stop.taken) <= 1
        /\ after_stop.taken # {} => after_stop.begun \subseteq after_stop.taken
        /\ (worker.pc = "done" \/ listener = "done" \/ main = "done") => stop_event)

\* The three threads have ended after the dashboard stopped the assistant,
\* and the worker has spoken one unit that it took from the queue after
\* stop_event was set.
C38_Witness ==
  /\ stop_event
  /\ ~is_running
  /\ worker.pc = "done"
  /\ listener = "done"
  /\ main = "done"
  /\ after_stop.begun # {}
  /\ after_stop.begun = after_stop.taken

\* C38 (as stated): every unit that the worker begins to synthesize with
\* stop_event set was dequeued before stop_event was set.
C38_WorkerSpeaksOnlyHeldUnit ==
  /\ Cardinality(after_stop.begun) <= 1
  /\ after_stop.begun \cap after_stop.taken = {}

====
